---- MODULE Spec2Model ----
(***************************************************************************)
(* Model of md-ai: the markdown <-> message codec, the turn automaton, the *)
(* update-patch engine, the write-files tools, the .gitignore compiler and *)
(* its cache, the patch-string parser, the exec-command tool and the chat  *)
(* loop.                                                                   *)
(*                                                                         *)
(* Text representation.  A one-line string is a sequence of tokens (a      *)
(* token is a word, a single blank " ", a marker such as "##" or a code   *)
(* fence, or for paths a single character).  A multi-line string ("Text")  *)
(* is the                                                                  *)
(* non-empty sequence of its lines, i.e. what s.split("\n") returns: ""    *)
(* is << <<>> >> and "a\n" is << <<"a">>, <<>> >>.                         *)
(***************************************************************************)
EXTENDS Integers, Sequences, FiniteSets, TLC

VARIABLES
    messages,         \* codec: the CoreMessage[] handed to messagesToMarkdown
    compressed,       \* codec: the compressed argument of messagesToMarkdown
    markdown,         \* codec: the markdown text (serializer output / parser input)
    parsed,           \* codec: outcome of markdownToMessages
    cpc,              \* codec: position in serialize -> parse
    chunks,           \* codec: the blocks a hand-written conversation file is made of
    chat,             \* turn automaton: the message list given to determineNextTurn
    nextTurn,         \* turn automaton: what determineNextTurn returned
    fileText,         \* applyPatchToString: the file content
    update,           \* applyPatchToString: the update patch (search, replace)
    updated,          \* applyPatchToString: its outcome
    tool,             \* write tools: which tool runs, "write-files" (batch) or "write-file"
    patches,          \* write tools: the patches of the tool call
    auto,             \* write tools: options.auto
    files,            \* write tools: the files on disk
    dirs,             \* write tools: the directories on disk
    tracker,          \* write tools: fileAccessTracker
    answer,           \* write tools: what the user answered at the prompt
    tpc,              \* write tools: position of execute
    tasks,            \* write tools: one record per patch, its apply function's progress
    outcome,          \* write tools: what execute returned or threw
    gitignore,        \* ignore compiler: the content of a .gitignore file
    ignored,          \* ignore compiler: the patterns parseGitignore returned
    ipc,              \* ignore compiler: position, before or after the call
    chatFile,         \* chat loop: the content of the conversation file
    variant,          \* chat loop: "confirm" (src/chat.ts) or "select" (src/prompts.ts)
    aiSystem,         \* chat loop: options.ai.system, empty when not configured
    withCompression,  \* chat loop: options.withCompression
    rpc,              \* chat loop: where the run is
    iteration,        \* chat loop: number of loop iterations begun
    turnMessages,     \* chat loop: `messages` of the current iteration
    turn,             \* chat loop: `nextTurn` of the current iteration
    turnStartFile,    \* chat loop (history): the file content the iteration read
    modelMessages,    \* chat loop (history): requestOptions.messages of the calls of this turn
    responseMessages, \* chat loop: (await response).messages
    asked,            \* chat loop (history): the answer given at the assistant-turn prompt
    writes,           \* chat loop (history): writeFile calls of this turn
    ending,      \* chat loop (history): how the latest turn ended
    ignoreFiles, \* ignore cache: the .gitignore file of each project root
    clock,       \* ignore cache: the file system's time
    cachedIgnore, \* ignore cache: the module's cachedIgnore
    cachedMtime, \* ignore cache: the module's cachedMtime
    lookup,      \* ignore cache: the getIgnorePatterns call in progress or returned
    patchBlocks, \* patch parser (history): the blocks the patch text was put together from
    patchString, \* patch parser: the patchString argument of parsePatchString
    countsDeclarations, \* patch parser: the version with move patches and the declaration count
    parsedPatches, \* patch parser: what parsePatchString returned or that it threw
    ppc,         \* patch parser: position, before or after the call
    alwaysAllow, \* exec-command: options.alwaysAllow
    execCall,    \* exec-command: command and arguments of the call in progress
    epc,         \* exec-command: position of execute
    execResult,  \* exec-command: what the latest call returned or threw
    execLog,     \* exec-command (history): the runCommand calls and what let them pass
    alwaysAnswered \* exec-command (history): the calls answered with Always allow

codecVars == <<messages, compressed, markdown, parsed, cpc, chunks>>
turnVars == <<chat, nextTurn>>
patchVars == <<fileText, update, updated>>
toolVars == <<tool, patches, auto, files, dirs, tracker, answer, tpc, tasks, outcome>>
ignoreVars == <<gitignore, ignored, ipc>>
runVars == <<chatFile, variant, aiSystem, withCompression, rpc, iteration, turnMessages, turn, turnStartFile, modelMessages, responseMessages, asked, writes, ending>>
cacheVars == <<ignoreFiles, clock, cachedIgnore, cachedMtime, lookup>>
parserVars == <<patchBlocks, patchString, countsDeclarations, parsedPatches, ppc>>
execVars == <<alwaysAllow, execCall, epc, execResult, execLog, alwaysAnswered>>
vars == <<codecVars, turnVars, patchVars, toolVars, ignoreVars, runVars, cacheVars, parserVars, execVars>>

-----------------------------------------------------------------------------
(* The parts of the state a specification does not exercise stay idle *)

CodecIdle ==
    /\ messages = <<>>
    /\ compressed = FALSE
    /\ markdown = [ok |-> FALSE, md |-> << <<>> >>]
    /\ parsed = [ok |-> FALSE, msgs |-> <<>>]
    /\ cpc = "idle"
    /\ chunks = <<>>

TurnIdle ==
    /\ chat = <<>>
    /\ nextTurn = [role |-> "undecided"]

PatchIdle ==
    /\ fileText = << <<>> >>
    /\ update = [search |-> << <<>> >>, replace |-> << <<>> >>]
    /\ updated = [ok |-> FALSE, text |-> << <<>> >>, error |-> "not run"]

ToolIdle ==
    /\ tool = "idle"
    /\ patches = <<>>
    /\ auto = FALSE
    /\ files = <<>>
    /\ dirs = {}
    /\ tracker = <<>>
    /\ answer = [type |-> "pending", ids |-> {}]
    /\ tpc = "idle"
    /\ tasks = <<>>
    /\ outcome = [kind |-> "idle"]

IgnoreIdle ==
    /\ gitignore = << <<>> >>
    /\ ignored = <<>>
    /\ ipc = "idle"

RunIdle ==
    /\ chatFile = << <<>> >>
    /\ variant = "idle"
    /\ aiSystem = << <<>> >>
    /\ withCompression = FALSE
    /\ rpc = "idle"
    /\ iteration = 0
    /\ turnMessages = <<>>
    /\ turn = [role |-> "undecided"]
    /\ turnStartFile = << <<>> >>
    /\ modelMessages = <<>>
    /\ responseMessages = <<>>
    /\ asked = "none"
    /\ writes = 0
    /\ ending = "none"

CacheIdle ==
    /\ ignoreFiles = <<>>
    /\ clock = 0
    /\ cachedIgnore = [set |-> FALSE]
    /\ cachedMtime = [set |-> FALSE]
    /\ lookup = [stage |-> "idle"]

ParserIdle ==
    /\ patchBlocks = <<>>
    /\ patchString = << <<>> >>
    /\ countsDeclarations = FALSE
    /\ parsedPatches = [threw |-> FALSE, patches |-> <<>>]
    /\ ppc = "idle"

ExecIdle ==
    /\ alwaysAllow = <<>>
    /\ execCall = [command |-> <<>>, arguments |-> <<>>]
    /\ epc = "idle"
    /\ execResult = "none"
    /\ execLog = <<>>
    /\ alwaysAnswered = {}

-----------------------------------------------------------------------------
(* Strings *)

EmptyText == << <<>> >>

\* "\n" and "\n\n" as Text
NL == << <<>>, <<>> >>
NLNL == << <<>>, <<>>, <<>> >>

Front(s) == SubSeq(s, 1, Len(s) - 1)
Last(s) == s[Len(s)]

\* s + t on multi-line strings: the last line of s continues with the first of t
Cat(s, t) == Front(s) \o << Last(s) \o Head(t) >> \o Tail(t)

\* the token of a carriage return
CR == "<cr>"

\* white space as String.prototype.trim sees it
IsSpace(tok) == tok \in {" ", CR}

\* the token of a code fence marker, three backticks
BT3 == "<bt3>"

RECURSIVE TrimStartLine(_)
TrimStartLine(l) ==
    IF l # <<>> /\ IsSpace(Head(l)) THEN TrimStartLine(Tail(l)) ELSE l

RECURSIVE TrimEndLine(_)
TrimEndLine(l) ==
    IF l # <<>> /\ IsSpace(Last(l)) THEN TrimEndLine(Front(l)) ELSE l

\* String.prototype.trim on a one-line string
TrimLine(l) == TrimStartLine(TrimEndLine(l))

\* String.prototype.trimEnd on a Text: trailing blanks and newlines go
RECURSIVE TrimEnd(_)
TrimEnd(s) ==
    LET l == TrimEndLine(Last(s)) IN
    IF l = <<>> /\ Len(s) > 1 THEN TrimEnd(Front(s))
    ELSE Front(s) \o <<l>>

\* s.replace(/\n$/, ""): drop one trailing newline
DropFinalNewline(s) ==
    IF Len(s) > 1 /\ Last(s) = <<>> THEN Front(s) ELSE s

-----------------------------------------------------------------------------
(* Messages (CoreMessage of the ai sdk) *)

\* a content part; the fields a part type does not have hold "" / EmptyText
TextPart(t) ==
    [type |-> "text", text |-> t, toolCallId |-> "", toolName |-> "", data |-> ""]
ToolCallPart(id, name, args) ==
    [type |-> "tool-call", text |-> EmptyText, toolCallId |-> id,
     toolName |-> name, data |-> args]
ToolResultPart(id, name, result) ==
    [type |-> "tool-result", text |-> EmptyText, toolCallId |-> id,
     toolName |-> name, data |-> result]
ImagePart ==
    [type |-> "image", text |-> EmptyText, toolCallId |-> "", toolName |-> "",
     data |-> ""]

\* MessageContent: a string or an array of parts
Str(t) == [isString |-> TRUE, text |-> t, parts |-> <<>>]
Arr(ps) == [isString |-> FALSE, text |-> EmptyText, parts |-> ps]

Msg(role, content) == [role |-> role, content |-> content]

\* content.length of a string or of an array
RECURSIVE TextLength(_)
TextLength(t) ==
    IF Len(t) = 1 THEN Len(t[1]) ELSE Len(t[1]) + 1 + TextLength(Tail(t))
ContentLength(c) == IF c.isString THEN TextLength(c.text) ELSE Len(c.parts)

-----------------------------------------------------------------------------
(* JSON.  A JSON document is one token; JsonObject gives the object that   *)
(* JSON.parse reads from it, "-" standing for an absent key.  Values:      *)
(* "A1", "A2", "R1" are JSON objects, "S" is a JSON string, "#123" a number*)
(* and "b64:x" the base64 text of the brotli-compressed JSON of x.         *)

Absent == "-"

JsonTokens ==
    {"{c1:A1}", "{c1:A2}", "{r1:R1}", "{zc1:A1}", "{zc1:A2}", "{zr1:R1}",
     "{id#123}", "{r1:S}", "{}", "{not json}"}

Obj(id, name, args, result, cargs, cresult) ==
    [toolCallId |-> id, toolName |-> name, args |-> args, result |-> result,
     compressedArgs |-> cargs, compressedResult |-> cresult]

\* JSON.parse accepts the token
JsonValid(tok) == tok \in JsonTokens \ {"{not json}"}

JsonObject(tok) ==
    CASE tok = "{c1:A1}" -> Obj("c1", "listFiles", "A1", Absent, Absent, Absent)
      [] tok = "{c1:A2}" -> Obj("c1", "listFiles", "A2", Absent, Absent, Absent)
      [] tok = "{r1:R1}" -> Obj("c1", "listFiles", Absent, "R1", Absent, Absent)
      [] tok = "{zc1:A1}" -> Obj("c1", "listFiles", Absent, Absent, "b64:A1", Absent)
      [] tok = "{zc1:A2}" -> Obj("c1", "listFiles", Absent, Absent, "b64:A2", Absent)
      [] tok = "{zr1:R1}" -> Obj("c1", "listFiles", Absent, Absent, Absent, "b64:R1")
      [] tok = "{id#123}" -> Obj("#123", "foo", "A1", Absent, Absent, Absent)
      [] tok = "{r1:S}" -> Obj("c1", "listFiles", Absent, "S", Absent, Absent)
      [] OTHER -> Obj(Absent, Absent, Absent, Absent, Absent, Absent)

\* JSON.stringify of an object of the table
JsonStringify(obj) ==
    CHOOSE tok \in JsonTokens : JsonValid(tok) /\ JsonObject(tok) = obj

IsJsonString(v) == v \in {"c1", "listFiles", "foo", "b64:A1", "b64:A2", "b64:R1", "S"}
IsJsonRecord(v) == v \in {"A1", "A2", "R1"}

\* brotliCompressSync(Buffer.from(JSON.stringify(v))).toString("base64")
BrotliBase64(v) ==
    CASE v = "A1" -> "b64:A1"
      [] v = "A2" -> "b64:A2"
      [] v = "R1" -> "b64:R1"

-----------------------------------------------------------------------------
(* Serializer, src/markdown/serialize.ts.  A result is [ok, md]; ok = FALSE *)
(* is a throw (shouldNeverHappen).                                          *)

Threw == [ok |-> FALSE, md |-> EmptyText]
Ok(md) == [ok |-> TRUE, md |-> md]

\* the template literal of fence: newline, opening fence with its name,
\* the content, the closing fence, newline
fence(name, content) ==
    << <<>>, <<BT3, name>>, <<content>>, <<BT3>>, <<>> >>

RECURSIVE serializeUserPartsFrom(_, _, _)
serializeUserPartsFrom(parts, i, out) ==
    IF i > Len(parts) THEN Ok(out)
    ELSE IF parts[i].type # "text" THEN Threw
    ELSE LET o1 == Cat(out, parts[i].text)
             o2 == IF i < Len(parts) THEN Cat(o1, NLNL) ELSE o1
         IN serializeUserPartsFrom(parts, i + 1, o2)

serializeUserParts(content) ==
    IF content.isString THEN Ok(content.text)
    ELSE serializeUserPartsFrom(content.parts, 1, EmptyText)

toolCallFence(p, compress) ==
    IF compress
    THEN fence("tool-call-compressed",
               JsonStringify(Obj(p.toolCallId, p.toolName, Absent, Absent,
                                 BrotliBase64(p.data), Absent)))
    ELSE fence("tool-call",
               JsonStringify(Obj(p.toolCallId, p.toolName, p.data, Absent,
                                 Absent, Absent)))

RECURSIVE serializeAssistantPartsFrom(_, _, _, _)
serializeAssistantPartsFrom(parts, compress, i, out) ==
    IF i > Len(parts) THEN Ok(out)
    ELSE IF parts[i].type \notin {"text", "tool-call"} THEN Threw
    ELSE LET o1 == IF parts[i].type = "text" THEN Cat(out, parts[i].text)
                   ELSE Cat(out, toolCallFence(parts[i], compress))
             o2 == IF i < Len(parts) THEN Cat(o1, NLNL) ELSE o1
         IN serializeAssistantPartsFrom(parts, compress, i + 1, o2)

serializeAssistantParts(content, compress) ==
    IF content.isString THEN Ok(content.text)
    ELSE serializeAssistantPartsFrom(content.parts, compress, 1, EmptyText)

toolResultFence(p, compress) ==
    IF compress
    THEN fence("tool-result-compressed",
               JsonStringify(Obj(p.toolCallId, p.toolName, Absent, Absent,
                                 Absent, BrotliBase64(p.data))))
    ELSE fence("tool-result",
               JsonStringify(Obj(p.toolCallId, p.toolName, Absent, p.data,
                                 Absent, Absent)))

\* the loop body for a p without toolCallId, toolName and result (a text
\* part, or a character of a string content): JSON.stringify(undefined) is
\* undefined and Buffer.from(undefined) throws; without compression
\* JSON.stringify drops the undefined keys
RECURSIVE serializeToolResultPartsFrom(_, _, _, _)
serializeToolResultPartsFrom(parts, compress, i, out) ==
    IF i > Len(parts) THEN Ok(out)
    ELSE IF parts[i].type # "tool-result"
    THEN (IF compress THEN Threw
          ELSE serializeToolResultPartsFrom(parts, compress, i + 1,
                                            Cat(out, fence("tool-result", "{}"))))
    ELSE serializeToolResultPartsFrom(parts, compress, i + 1,
                                      Cat(out, toolResultFence(parts[i], compress)))

\* for (let p of parts) walks the characters of a string content
serializeToolResultParts(content, compress) ==
    IF content.isString
    THEN serializeToolResultPartsFrom([j \in 1..TextLength(content.text) |-> TextPart(EmptyText)],
                                      compress, 1, EmptyText)
    ELSE serializeToolResultPartsFrom(content.parts, compress, 1, EmptyText)

\* "## role\n\n"
RoleHeading(role) == << <<"##", " ", role>>, <<>>, <<>> >>

serializeBody(msg, compress) ==
    CASE msg.role = "system" -> Ok(msg.content.text)
      [] msg.role = "user" -> serializeUserParts(msg.content)
      [] msg.role = "assistant" -> serializeAssistantParts(msg.content, compress)
      [] msg.role = "tool" -> serializeToolResultParts(msg.content, compress)

RECURSIVE messagesToMarkdownFrom(_, _, _, _)
messagesToMarkdownFrom(msgs, compress, i, md) ==
    IF i > Len(msgs) THEN Ok(Cat(TrimEnd(md), NL))
    ELSE LET body == serializeBody(msgs[i], compress) IN
         IF ~body.ok THEN Threw
         ELSE messagesToMarkdownFrom(msgs, compress, i + 1,
                  Cat(Cat(Cat(md, RoleHeading(msgs[i].role)), body.md), NLNL))

messagesToMarkdown(msgs, compress) ==
    messagesToMarkdownFrom(msgs, compress, 1, EmptyText)

-----------------------------------------------------------------------------
(* Block structure of a markdown text as remark-parse (CommonMark) reads   *)
(* it, for texts whose lines are indented by at most three blanks: blank   *)
(* lines separate blocks, an ATX heading or a fence opener starts a block  *)
(* even right after a paragraph line, a fenced code block runs to its      *)
(* closing fence or to the end of the text.                                *)

HashDepth(tok) ==
    CASE tok = "#" -> 1 [] tok = "##" -> 2 [] tok = "###" -> 3 [] OTHER -> 0

IsBlankLine(l) == TrimLine(l) = <<>>

IsHeadingLine(l) ==
    LET t == TrimLine(l) IN
    /\ t # <<>>
    /\ HashDepth(t[1]) > 0
    /\ (Len(t) = 1 \/ IsSpace(t[2]))

HeadingContent(l) == TrimLine(Tail(TrimLine(l)))

IsFenceOpen(l) == LET t == TrimLine(l) IN t # <<>> /\ t[1] = BT3

IsFenceClose(l) == TrimLine(l) = <<BT3>>

\* mdast code.lang: the first word of the info string, "" when there is none
FenceLang(l) ==
    LET info == TrimLine(Tail(TrimLine(l))) IN
    IF info = <<>> THEN "" ELSE info[1]

\* inline markup tokens: an inline code span and an emphasis
InlineCodeTok == "code-span(c)"
EmphasisTok == "emph(e)"
IsMarkup(tok) == tok \in {InlineCodeTok, EmphasisTok}

\* the `value` of the phrasing nodes of one paragraph line, joined:
\* text keeps its value, inlineCode gives its content, emphasis has no value
RECURSIVE InlineValues(_)
InlineValues(l) ==
    IF l = <<>> THEN <<>>
    ELSE (CASE Head(l) = InlineCodeTok -> <<"c">>
            [] Head(l) = EmphasisTok -> <<>>
            [] OTHER -> <<Head(l)>>) \o InlineValues(Tail(l))

Node(type, depth, content, lang, body, raw) ==
    [type |-> type, depth |-> depth, content |-> content, lang |-> lang,
     body |-> body, raw |-> raw]

\* index of the line closing the fence opened at line i, or Len(lines) + 1
RECURSIVE FenceEnd(_, _)
FenceEnd(lines, j) ==
    IF j > Len(lines) THEN j
    ELSE IF IsFenceClose(lines[j]) THEN j
    ELSE FenceEnd(lines, j + 1)

\* index of the last line of the paragraph starting at line i
RECURSIVE ParagraphEnd(_, _)
ParagraphEnd(lines, j) ==
    IF j + 1 > Len(lines) THEN j
    ELSE IF \/ IsBlankLine(lines[j + 1])
            \/ IsHeadingLine(lines[j + 1])
            \/ IsFenceOpen(lines[j + 1]) THEN j
    ELSE ParagraphEnd(lines, j + 1)

Min(a, b) == IF a < b THEN a ELSE b

\* tree.children of unified().use(remarkParse).parse(markdown)
RECURSIVE RemarkBlocks(_, _)
RemarkBlocks(lines, i) ==
    IF i > Len(lines) THEN <<>>
    ELSE IF IsBlankLine(lines[i]) THEN RemarkBlocks(lines, i + 1)
    ELSE IF IsHeadingLine(lines[i])
    THEN << Node("heading", HashDepth(TrimLine(lines[i])[1]),
                 HeadingContent(lines[i]), "", <<>>, <<TrimLine(lines[i])>>) >>
         \o RemarkBlocks(lines, i + 1)
    ELSE IF IsFenceOpen(lines[i])
    THEN LET e == FenceEnd(lines, i + 1)
             last == Min(e, Len(lines))
         IN << Node("code", 0, <<>>, FenceLang(lines[i]),
                    SubSeq(lines, i + 1, e - 1), SubSeq(lines, i, last)) >>
            \o RemarkBlocks(lines, e + 1)
    ELSE LET e == ParagraphEnd(lines, i)
             txt == [k \in 1..(e - i + 1) |-> InlineValues(TrimLine(lines[i + k - 1]))]
         IN << Node("paragraph", 0, <<>>, "", txt, SubSeq(lines, i, e)) >>
            \o RemarkBlocks(lines, e + 1)

-----------------------------------------------------------------------------
(* Parser, src/markdown-parse.ts lines 143-235 *)

VALID_ROLES == {"user", "assistant", "tool"}

\* String.prototype.toLowerCase on the words a heading is written with
ToLowerCase(tok) ==
    CASE tok \in {"User", "USER"} -> "user"
      [] tok \in {"Assistant"} -> "assistant"
      [] tok \in {"Tool"} -> "tool"
      [] tok \in {"System"} -> "system"
      [] OTHER -> tok

\* the value of the text node a heading starts with: its leading plain tokens
RECURSIVE LeadingText(_)
LeadingText(l) ==
    IF l = <<>> \/ IsMarkup(Head(l)) THEN <<>>
    ELSE <<Head(l)>> \o LeadingText(Tail(l))

NoRole == "null"

\* checkRoleHeading(node.children[0])
checkRoleHeading(content) ==
    IF content = <<>> THEN NoRole
    ELSE IF IsMarkup(content[1]) THEN NoRole
    ELSE LET v == TrimLine(LeadingText(content)) IN
         IF Len(v) = 1 /\ ToLowerCase(v[1]) \in VALID_ROLES
         THEN ToLowerCase(v[1]) ELSE NoRole

\* JSON.parse(node.value) succeeds: the fence body is one JSON document
BodyIsJson(body) ==
    /\ Len(body) = 1
    /\ Len(TrimLine(body[1])) = 1
    /\ JsonValid(TrimLine(body[1])[1])

BodyObject(body) == JsonObject(TrimLine(body[1])[1])

\* toolCallSchema.parse / toolResultSchema.parse accept the object
toolCallSchema(o) ==
    IsJsonString(o.toolCallId) /\ IsJsonString(o.toolName) /\ IsJsonRecord(o.args)
toolResultSchema(o) ==
    IsJsonString(o.toolCallId) /\ IsJsonString(o.toolName) /\ IsJsonRecord(o.result)

ParseError == [ok |-> FALSE, msgs |-> <<>>]

AddPart(sections, part) ==
    [sections EXCEPT ![Len(sections)].parts = Append(@, part)]

\* the callback of tree.children.forEach, node by node; `current` is the
\* section pushed last
RECURSIVE parseNodes(_, _, _)
parseNodes(nodes, i, sections) ==
    IF i > Len(nodes) THEN [ok |-> TRUE, sections |-> sections]
    ELSE LET node == nodes[i]
             role == IF node.type = "heading" /\ node.depth = 2
                     THEN checkRoleHeading(node.content) ELSE NoRole
         IN
         IF role # NoRole
         THEN parseNodes(nodes, i + 1,
                         Append(sections, [role |-> role, parts |-> <<>>]))
         ELSE IF sections = <<>> THEN parseNodes(nodes, i + 1, sections)
         ELSE IF node.type = "code"
         THEN (IF node.lang = "tool-call"
               THEN (IF Last(sections).role # "assistant"
                     THEN [ok |-> FALSE, sections |-> <<>>]
                     ELSE IF ~BodyIsJson(node.body)
                     THEN [ok |-> FALSE, sections |-> <<>>]
                     ELSE IF ~toolCallSchema(BodyObject(node.body))
                     THEN [ok |-> FALSE, sections |-> <<>>]
                     ELSE LET d == BodyObject(node.body) IN
                          parseNodes(nodes, i + 1,
                              AddPart(sections,
                                  ToolCallPart(d.toolCallId, d.toolName, d.args))))
               ELSE IF node.lang = "tool-result"
               THEN (IF Last(sections).role # "tool"
                     THEN [ok |-> FALSE, sections |-> <<>>]
                     ELSE IF ~BodyIsJson(node.body)
                     THEN [ok |-> FALSE, sections |-> <<>>]
                     ELSE IF ~toolResultSchema(BodyObject(node.body))
                     THEN [ok |-> FALSE, sections |-> <<>>]
                     ELSE LET d == BodyObject(node.body) IN
                          parseNodes(nodes, i + 1,
                              AddPart(sections,
                                  ToolResultPart(d.toolCallId, d.toolName, d.result))))
               ELSE parseNodes(nodes, i + 1,
                               AddPart(sections, TextPart(node.raw))))
         ELSE IF node.type = "paragraph"
         THEN parseNodes(nodes, i + 1,
                         AddPart(sections, TextPart(Cat(node.body, NL))))
         ELSE parseNodes(nodes, i + 1, AddPart(sections, TextPart(node.raw)))

\* sections.map(...) at the end of markdownToMessages
sectionToMessage(sec) ==
    IF Len(sec.parts) = 0 THEN Msg(sec.role, Str(EmptyText))
    ELSE IF Len(sec.parts) = 1 /\ sec.parts[1].type = "text"
    THEN Msg(sec.role, Str(DropFinalNewline(sec.parts[1].text)))
    ELSE Msg(sec.role, Arr(sec.parts))

markdownToMessages(md) ==
    LET r == parseNodes(RemarkBlocks(md, 1), 1, <<>>) IN
    IF ~r.ok THEN ParseError
    ELSE [ok |-> TRUE,
          msgs |-> [k \in 1..Len(r.sections) |-> sectionToMessage(r.sections[k])]]

-----------------------------------------------------------------------------
(* Codec specification: a bounded message list is serialized, the output   *)
(* is parsed back.                                                          *)

MaxMessages == 2
MaxParts == 2

SeqsOf(S, lo, hi) == UNION {[1..k -> S] : k \in lo..hi}

\* "", "a", "a\n\nb" and "a `c`"
MessageTexts ==
    {EmptyText, << <<"a">> >>, << <<"a">>, <<>>, <<"b">> >>,
     << <<"a", " ", InlineCodeTok>> >>}

UserParts == {TextPart(<< <<"a">> >>), ImagePart}
AssistantParts == {TextPart(<< <<"a">> >>), ToolCallPart("c1", "listFiles", "A1")}
ToolParts == {ToolResultPart("c1", "listFiles", "R1")}

Strings == {Str(t) : t \in MessageTexts}

CoreMessages ==
    {Msg("system", c) : c \in Strings}
    \cup {Msg("user", c) :
            c \in Strings \cup {Arr(ps) : ps \in SeqsOf(UserParts, 1, MaxParts)}}
    \cup {Msg("assistant", c) :
            c \in Strings \cup {Arr(ps) : ps \in SeqsOf(AssistantParts, 1, MaxParts)}}
    \cup {Msg("tool", Arr(ps)) : ps \in SeqsOf(ToolParts, 1, MaxParts)}

NotParsed == [ok |-> FALSE, msgs |-> <<>>]

CodecInit ==
    /\ messages \in SeqsOf(CoreMessages, 0, MaxMessages)
    /\ compressed \in BOOLEAN
    /\ markdown = Threw
    /\ parsed = NotParsed
    /\ cpc = "start"
    /\ chunks = <<>>
    /\ TurnIdle /\ PatchIdle /\ ToolIdle /\ IgnoreIdle /\ RunIdle /\ CacheIdle /\ ParserIdle /\ ExecIdle

\* let markdown = messagesToMarkdown(messages, compressed)
Serialize ==
    /\ cpc = "start"
    /\ markdown' = messagesToMarkdown(messages, compressed)
    /\ cpc' = IF markdown'.ok THEN "serialized" ELSE "threw"
    /\ UNCHANGED <<messages, compressed, parsed, chunks>>
    /\ UNCHANGED <<turnVars, patchVars, toolVars, ignoreVars, runVars, cacheVars, parserVars, execVars>>

\* let parsedMessages = markdownToMessages(markdown)
Parse ==
    /\ cpc = "serialized"
    /\ parsed' = markdownToMessages(markdown.md)
    /\ cpc' = "parsed"
    /\ UNCHANGED <<messages, compressed, markdown, chunks>>
    /\ UNCHANGED <<turnVars, patchVars, toolVars, ignoreVars, runVars, cacheVars, parserVars, execVars>>

CodecNext == Serialize \/ Parse

SpecCodec == CodecInit /\ [][CodecNext]_vars

\* C1: every message list the serializer accepts parses back to itself
C1_RoundTrip ==
    cpc = "parsed" => (parsed.ok /\ parsed.msgs = messages)

-----------------------------------------------------------------------------
(* Parser specification: a conversation file written by hand, made of up   *)
(* to MaxChunks blocks separated by blank lines, is parsed.                *)

MaxChunks == 4

HeadingChunk(depthTok, word) ==
    [kind |-> "heading", mark |-> depthTok, word |-> word, json |-> ""]
ParagraphChunk == [kind |-> "paragraph", mark |-> "", word |-> "a", json |-> ""]
FenceChunk(lang, json) ==
    [kind |-> "fence", mark |-> BT3, word |-> lang, json |-> json]

Chunks ==
    {HeadingChunk("##", w) : w \in {"system", "user", "assistant", "tool"}}
    \cup {HeadingChunk("##", "User"), HeadingChunk("###", "user"),
          HeadingChunk("##", "note"), ParagraphChunk}
    \cup {FenceChunk("tool-call", j) : j \in {"{c1:A1}", "{not json}", "{id#123}"}}
    \cup {FenceChunk("tool-result", j) : j \in {"{r1:R1}", "{r1:S}"}}

ChunkLines(c) ==
    CASE c.kind = "heading" -> << <<c.mark, " ", c.word>> >>
      [] c.kind = "paragraph" -> << <<c.word>> >>
      [] c.kind = "fence" -> << <<BT3, c.word>>, <<c.json>>, <<BT3>> >>

\* a blank line, then each block followed by a blank line
RECURSIVE ChunksText(_)
ChunksText(cs) ==
    IF cs = <<>> THEN EmptyText
    ELSE Cat(Cat(<< <<>> >> \o ChunkLines(Head(cs)), NL), ChunksText(Tail(cs)))

ParseInit ==
    /\ chunks \in SeqsOf(Chunks, 0, MaxChunks)
    /\ markdown = Ok(ChunksText(chunks))
    /\ messages = <<>>
    /\ compressed = FALSE
    /\ parsed = NotParsed
    /\ cpc = "serialized"
    /\ TurnIdle /\ PatchIdle /\ ToolIdle /\ IgnoreIdle /\ RunIdle /\ CacheIdle /\ ParserIdle /\ ExecIdle

ParseNext == Parse

SpecParse == ParseInit /\ [][ParseNext]_vars

\* the four roles a "## role" heading may name
SectionRoles == {"system", "user", "assistant", "tool"}

OpensSection(c) ==
    c.kind = "heading" /\ c.mark = "##" /\ ToLowerCase(c.word) \in SectionRoles

\* the role of the section block i lies in, NoRole before the first section
RECURSIVE SectionRoleAt(_, _)
SectionRoleAt(cs, i) ==
    IF i = 0 THEN NoRole
    ELSE IF OpensSection(cs[i]) THEN ToLowerCase(cs[i].word)
    ELSE SectionRoleAt(cs, i - 1)

FenceBodyMatches(c) ==
    /\ JsonValid(c.json)
    /\ IF c.word = "tool-call" THEN toolCallSchema(JsonObject(c.json))
       ELSE toolResultSchema(JsonObject(c.json))

\* block i is a tool fence under the wrong role or with a bad body
BadToolFence(cs, i) ==
    /\ cs[i].kind = "fence"
    /\ cs[i].word \in {"tool-call", "tool-result"}
    /\ SectionRoleAt(cs, i) # NoRole
    /\ \/ cs[i].word = "tool-call" /\ SectionRoleAt(cs, i) # "assistant"
       \/ cs[i].word = "tool-result" /\ SectionRoleAt(cs, i) # "tool"
       \/ ~FenceBodyMatches(cs[i])

\* C3: a tool fence under the wrong role, or with a body that is not JSON of
\* the schema, makes the parse fail, whatever sections surround it
C3_BadFenceRejected ==
    (cpc = "parsed" /\ \E i \in 1..Len(chunks) : BadToolFence(chunks, i))
        => ~parsed.ok

\* the same for files without a "## system" section
C3_BadFenceRejectedNoSystem ==
    (/\ cpc = "parsed"
     /\ \A i \in 1..Len(chunks) : ~(OpensSection(chunks[i]) /\ chunks[i].word = "system")
     /\ \E i \in 1..Len(chunks) : BadToolFence(chunks, i))
        => ~parsed.ok

-----------------------------------------------------------------------------
(* Turn automaton, src/chat.ts lines 174-201 (src/prompts.ts has the same) *)

UserTurn(addHeading) == [role |-> "user", addHeading |-> addHeading]
AssistantTurn(skipConfirm) == [role |-> "assistant", skipConfirm |-> skipConfirm]

\* the mutant: the `system` case is missing
determineNextTurn_noSystemCase(c) ==
    IF c = <<>> THEN UserTurn(TRUE)
    ELSE IF Last(c).role = "assistant" THEN UserTurn(TRUE)
    ELSE IF Last(c).role = "tool" THEN AssistantTurn(TRUE)
    ELSE IF ContentLength(Last(c).content) = 0 THEN UserTurn(FALSE)
    ELSE AssistantTurn(FALSE)

\* a user message with text is answered without asking
determineNextTurn_neverAsks(c) ==
    IF c = <<>> THEN UserTurn(TRUE)
    ELSE IF Last(c).role = "assistant" THEN UserTurn(TRUE)
    ELSE IF Last(c).role = "system" THEN UserTurn(TRUE)
    ELSE IF Last(c).role = "tool" THEN AssistantTurn(TRUE)
    ELSE IF ContentLength(Last(c).content) = 0 THEN UserTurn(FALSE)
    ELSE AssistantTurn(TRUE)

determineNextTurn(c) ==
    IF c = <<>> THEN UserTurn(TRUE)
    ELSE IF Last(c).role = "assistant" THEN UserTurn(TRUE)
    ELSE IF Last(c).role = "system" THEN UserTurn(TRUE)
    ELSE IF Last(c).role = "tool" THEN AssistantTurn(TRUE)
    ELSE IF ContentLength(Last(c).content) = 0 THEN UserTurn(FALSE)
    ELSE AssistantTurn(FALSE)

MaxChat == 3

\* messages of every role with empty and non-empty content of both shapes
TurnMessages ==
    {Msg("system", Str(t)) : t \in {EmptyText, << <<"a">> >>}}
    \cup {Msg(r, c) : r \in {"user", "assistant"},
                      c \in {Str(EmptyText), Str(<< <<"a">> >>), Arr(<<>>),
                             Arr(<<TextPart(<< <<"a">> >>)>>)}}
    \cup {Msg("tool", Arr(ps)) : ps \in SeqsOf(ToolParts, 0, 1)}

Undecided == [role |-> "undecided"]

TurnInit ==
    /\ chat \in SeqsOf(TurnMessages, 0, MaxChat)
    /\ nextTurn = Undecided
    /\ CodecIdle /\ PatchIdle /\ ToolIdle /\ IgnoreIdle /\ RunIdle /\ CacheIdle /\ ParserIdle /\ ExecIdle

\* let nextTurn = determineNextTurn(messages)
DetermineNextTurn ==
    /\ nextTurn = Undecided
    /\ nextTurn' = determineNextTurn(chat)
    /\ UNCHANGED chat
    /\ UNCHANGED <<codecVars, patchVars, toolVars, ignoreVars, runVars, cacheVars, parserVars, execVars>>

TurnNext == DetermineNextTurn

SpecTurn == TurnInit /\ [][TurnNext]_vars

IsEmptyContent(c) == IF c.isString THEN c.text = EmptyText ELSE c.parts = <<>>

\* C2: the next turn is read off the last message alone: no message, or a
\* last assistant or system message: the user, with a new heading; a last user
\* message with empty content: the user, without heading; a last tool message:
\* the assistant, unconfirmed; a non-empty last user message: the assistant,
\* after confirmation; nothing else is returned
C2_TurnTable ==
    nextTurn # Undecided =>
        /\ nextTurn \in {UserTurn(TRUE), UserTurn(FALSE),
                         AssistantTurn(TRUE), AssistantTurn(FALSE)}
        /\ (chat = <<>>) => nextTurn = UserTurn(TRUE)
        /\ (chat # <<>>) =>
            LET last == chat[Len(chat)] IN
            /\ last.role \in {"assistant", "system"} => nextTurn = UserTurn(TRUE)
            /\ (last.role = "user" /\ IsEmptyContent(last.content))
                  => nextTurn = UserTurn(FALSE)
            /\ last.role = "tool" => nextTurn = AssistantTurn(TRUE)
            /\ (last.role = "user" /\ ~IsEmptyContent(last.content))
                  => nextTurn = AssistantTurn(FALSE)

\* a system message with text was last, and the turn went to the user
C2_Witness ==
    /\ nextTurn = UserTurn(TRUE)
    /\ Len(chat) = 2
    /\ chat[2] = Msg("system", Str(<< <<"a">> >>))
    /\ chat[1].role = "tool"

-----------------------------------------------------------------------------
(* applyPatchToString: the update-patch engine.  content.split("\n") and   *)
(* lines.join("\n") are the two directions of the Text representation.     *)

normalizeLine_noTrim(line) == line

\* let normalizeLine = (line) => line.trim()
normalizeLine(line) == TrimLine(line)

\* lines.map(normalizeLine)
normalizeLines(arr) == [i \in 1..Len(arr) |-> normalizeLine(arr[i])]

\* the inner loop over j: the search lines sit at index i (1-based)
matchAt(normalizedContentLines, normalizedSearchLines, i) ==
    \A j \in 1..Len(normalizedSearchLines) :
        normalizedContentLines[i + j - 1] = normalizedSearchLines[j]

\* the outer loop over i: every index the search lines sit at
matchStarts(normalizedContentLines, normalizedSearchLines) ==
    { i \in 1..(Len(normalizedContentLines) - Len(normalizedSearchLines) + 1) :
        matchAt(normalizedContentLines, normalizedSearchLines, i) }

\* Array.prototype.splice(start, deleteCount, ...items), start 1-based; a
\* deleteCount that runs past the end removes up to the end
splice(arr, start, deleteCount, items) ==
    SubSeq(arr, 1, start - 1) \o items \o
    (IF start + deleteCount > Len(arr) THEN <<>>
     ELSE SubSeq(arr, start + deleteCount, Len(arr)))

Max(S) == CHOOSE x \in S : \A y \in S : y <= x

\* for (k = matchStarts.length - 1; k >= 0; k--) updatedContentLines.splice(...)
RECURSIVE spliceFromTheEnd(_, _, _, _)
spliceFromTheEnd(updatedContentLines, starts, deleteCount, replaceLines) ==
    IF starts = {} THEN updatedContentLines
    ELSE LET searchStart == Max(starts) IN
         spliceFromTheEnd(
             splice(updatedContentLines, searchStart, deleteCount, replaceLines),
             starts \ {searchStart}, deleteCount, replaceLines)

PatchThrew(message) == [ok |-> FALSE, text |-> EmptyText, error |-> message]
PatchedText(t) == [ok |-> TRUE, text |-> t, error |-> ""]

applyPatchToString_silentNoOp(content, patch) ==
    LET starts == matchStarts(normalizeLines(content),
                              normalizeLines(patch.search)) IN
    PatchedText(spliceFromTheEnd(content, starts, Len(patch.search), patch.replace))

applyPatchToString(content, patch) ==
    LET contentLines == content
        searchLines == patch.search
        replaceLines == patch.replace
        normalizedContentLines == normalizeLines(contentLines)
        normalizedSearchLines == normalizeLines(searchLines)
        starts == matchStarts(normalizedContentLines, normalizedSearchLines)
    IN  IF Len(normalizedSearchLines) = 0
        THEN PatchThrew("search lines is empty")
        ELSE IF starts = {}
        THEN PatchThrew("did not find a match for the search lines")
        ELSE PatchedText(spliceFromTheEnd(contentLines, starts,
                                          Len(searchLines), replaceLines))

-----------------------------------------------------------------------------
(* Specification of the update-patch engine: applyPatchToString applied to *)
(* bounded file contents, search texts and replace texts.                  *)

MaxContentLines == 3
MaxSearchLines == 2
MaxReplaceLines == 2

ContentLineSet == { <<"a">>, <<" ", "a">>, <<"b">> }
SearchLineSet == { <<"a">>, <<"a", " ">>, <<"b">> }
ReplaceLineSet == { <<"x">>, <<" ", "x">>, <<"a">> }

NotRun == [ok |-> FALSE, text |-> EmptyText, error |-> "not run"]

\* file contents with an empty or blank line: "", "a\n", "a\n \nb"
BlankLineContents ==
    { EmptyText, << <<"a">>, <<>> >>, << <<"a">>, <<" ">>, <<"b">> >> }

PatchInit ==
    /\ fileText \in SeqsOf(ContentLineSet, 1, MaxContentLines) \cup BlankLineContents
    /\ update \in [search : SeqsOf(SearchLineSet, 1, MaxSearchLines) \cup {EmptyText},
                   replace : SeqsOf(ReplaceLineSet, 1, MaxReplaceLines)]
    /\ updated = NotRun
    /\ CodecIdle /\ TurnIdle /\ ToolIdle /\ IgnoreIdle /\ RunIdle /\ CacheIdle /\ ParserIdle /\ ExecIdle

\* applyPatchToString(content, patch), a throw caught as by tryCatch
ApplyPatchToString ==
    /\ updated = NotRun
    /\ updated' = applyPatchToString(fileText, update)
    /\ UNCHANGED <<fileText, update>>
    /\ UNCHANGED <<codecVars, turnVars, toolVars, ignoreVars, runVars, cacheVars, parserVars, execVars>>

PatchNext == ApplyPatchToString

SpecPatch == PatchInit /\ [][PatchNext]_vars

\* the search lines, compared trimmed, sit at lines i .. i+Len(search)-1
OccursAt(content, search, i) ==
    /\ i >= 1
    /\ i + Len(search) - 1 <= Len(content)
    /\ \A j \in 1..Len(search) : TrimLine(content[i + j - 1]) = TrimLine(search[j])

Occurrences(content, search) ==
    { i \in 1..Len(content) : OccursAt(content, search, i) }

\* line i lies inside an occurrence without being its first line
InsideOccurrence(content, search, i) ==
    \E s \in Occurrences(content, search) : s < i /\ i < s + Len(search)

\* the content from line i on, with the replace lines where an occurrence
\* starts, nothing for the further lines of an occurrence, and every other
\* line as it is
RECURSIVE ReplacedFrom(_, _, _, _)
ReplacedFrom(content, search, replace, i) ==
    IF i > Len(content) THEN <<>>
    ELSE (IF i \in Occurrences(content, search) THEN replace
          ELSE IF InsideOccurrence(content, search, i) THEN <<>>
          ELSE <<content[i]>>)
         \o ReplacedFrom(content, search, replace, i + 1)

OccurrencesOverlap(content, search) ==
    \E s, t \in Occurrences(content, search) : s < t /\ t < s + Len(search)

\* C7: when the search lines occur in the file, the updated content has the
\* replace lines in place of every occurrence and every line outside the
\* occurrences as it was and in its place, also for overlapping occurrences
C7_AllOccurrencesReplaced ==
    (updated # NotRun /\ Occurrences(fileText, update.search) # {}) =>
        /\ updated.ok
        /\ updated.text = ReplacedFrom(fileText, update.search, update.replace, 1)

C7_DisjointOccurrencesReplaced ==
    (updated # NotRun /\ Occurrences(fileText, update.search) # {}
        /\ ~OccurrencesOverlap(fileText, update.search)) =>
        /\ updated.ok
        /\ updated.text = ReplacedFrom(fileText, update.search, update.replace, 1)

\* C8: lines are compared trimmed on both sides, so the patch applies exactly
\* when the trimmed search lines sit somewhere in the trimmed file lines; and
\* the lines put at the first occurrence are the replace lines as given,
\* after the untouched lines before it
C8_TrimmedMatchRawReplace ==
    updated # NotRun =>
        /\ updated.ok <=> Occurrences(fileText, update.search) # {}
        /\ updated.ok =>
            LET first == CHOOSE s \in Occurrences(fileText, update.search) :
                            \A t \in Occurrences(fileText, update.search) : s <= t
            IN  /\ Len(updated.text) >= first - 1 + Len(update.replace)
                /\ SubSeq(updated.text, 1, first - 1) = SubSeq(fileText, 1, first - 1)
                /\ SubSeq(updated.text, first, first - 1 + Len(update.replace))
                      = update.replace

\* an indented file line matched a search line with a trailing blank, and an
\* indented replace line went into the file as it is
C8_Witness ==
    /\ updated.ok
    /\ fileText = << <<"b">>, <<" ", "a">> >>
    /\ update.search = << <<"a", " ">> >>
    /\ update.replace = << <<" ", "x">> >>
    /\ updated.text = << <<"b">>, <<" ", "x">> >>

-----------------------------------------------------------------------------
(* Paths: a path is the sequence of its characters *)

\* options.cwd, the project root
cwd == <<"/", "p">>

\* node:path isAbsolute
isAbsolute(p) == p # <<>> /\ Head(p) = "/"

\* p.split("/"); seg is the segment being read
RECURSIVE SplitPath(_, _)
SplitPath(p, seg) ==
    IF p = <<>> THEN <<seg>>
    ELSE IF Head(p) = "/" THEN <<seg>> \o SplitPath(Tail(p), <<>>)
    ELSE SplitPath(Tail(p), Append(seg, Head(p)))

\* drop empty and "." segments, let ".." take the segment before it away
RECURSIVE NormalizeSegments(_, _)
NormalizeSegments(segs, out) ==
    IF segs = <<>> THEN out
    ELSE LET s == Head(segs) IN
         IF s = <<>> \/ s = <<".">> THEN NormalizeSegments(Tail(segs), out)
         ELSE IF s = <<".", ".">>
         THEN NormalizeSegments(Tail(segs), IF out = <<>> THEN out ELSE Front(out))
         ELSE NormalizeSegments(Tail(segs), Append(out, s))

RECURSIVE JoinPath(_)
JoinPath(segs) ==
    IF segs = <<>> THEN <<>> ELSE <<"/">> \o Head(segs) \o JoinPath(Tail(segs))

\* the location an absolute path names: what the operating system reaches
\* when it walks the path (there are no symbolic links)
realpath(p) ==
    LET j == JoinPath(NormalizeSegments(SplitPath(p, <<>>), <<>>)) IN
    IF j = <<>> THEN <<"/">> ELSE j

\* node:path resolve(from, to)
resolve(from, to) ==
    IF isAbsolute(to) THEN realpath(to) ELSE realpath(from \o <<"/">> \o to)

\* String.prototype.startsWith
startsWith(s, prefix) ==
    Len(s) >= Len(prefix) /\ SubSeq(s, 1, Len(prefix)) = prefix

\* ensureProjectPath: threw, or the absolute path it returns
ensureProjectPath(projectRoot, rel) ==
    LET abs == IF isAbsolute(rel) THEN rel ELSE resolve(projectRoot, rel) IN
    [threw |-> ~startsWith(abs, projectRoot), path |-> abs]

RECURSIVE DropLastSegment(_)
DropLastSegment(p) ==
    IF p = <<>> \/ Last(p) = "/" THEN p ELSE DropLastSegment(Front(p))

\* node:path dirname of an absolute path
dirname(p) ==
    LET d == DropLastSegment(p) IN IF Len(d) <= 1 THEN d ELSE Front(d)

\* the directories mkdir(dir, {recursive: true}) makes sure of
RECURSIVE DirAndAncestors(_)
DirAndAncestors(dir) ==
    IF Len(dir) <= 1 THEN {dir} ELSE {dir} \cup DirAndAncestors(dirname(dir))

-----------------------------------------------------------------------------
(* The file system the tools work on *)

PathF == <<"/", "p", "/", "f">>
PathG == <<"/", "p", "/", "g">>
PathDG == <<"/", "p", "/", "d", "/", "g">>
PathE == <<"/", "e">>
PathP2F == <<"/", "p", "2", "/", "f">>

FilePaths == {PathF, PathG, PathDG, PathE, PathP2F}

OldText == << <<"a">>, <<"b">> >>
NewText == << <<"n">> >>

NoFile == [exists |-> FALSE, text |-> EmptyText, mtime |-> 0]
FileOf(t, m) == [exists |-> TRUE, text |-> t, mtime |-> m]

\* f inside the project; e and p2/f outside of it; g and d/g not there yet
InitialFiles ==
    [p \in FilePaths |-> IF p \in {PathF, PathE, PathP2F} THEN FileOf(OldText, 1)
                         ELSE NoFile]
InitialDirs == { <<"/">>, <<"/", "p">>, <<"/", "p", "2">> }

fsExists(fs, p) == fs[realpath(p)].exists

fsWriteFile_ignoreFlag(fs, ds, p, content, flag) ==
    LET rp == realpath(p) IN
    IF dirname(rp) \notin ds THEN [ok |-> FALSE, files |-> fs]
    ELSE [ok |-> TRUE,
          files |-> [fs EXCEPT ![rp] = FileOf(content, @.mtime + 1)]]

\* writeFile(p, content, {flag}): "wx" fails if the path exists, and every
\* write fails when the directory is not there
fsWriteFile(fs, ds, p, content, flag) ==
    LET rp == realpath(p) IN
    IF (flag = "wx" /\ fs[rp].exists) \/ dirname(rp) \notin ds
    THEN [ok |-> FALSE, files |-> fs]
    ELSE [ok |-> TRUE,
          files |-> [fs EXCEPT ![rp] = FileOf(content, @.mtime + 1)]]

\* unlink(p)
fsUnlink(fs, p) ==
    LET rp == realpath(p) IN
    IF ~fs[rp].exists THEN [ok |-> FALSE, files |-> fs]
    ELSE [ok |-> TRUE, files |-> [fs EXCEPT ![rp] = [NoFile EXCEPT !.mtime = fs[rp].mtime]]]

\* rename(from, to): the file moves and replaces what is at the new path
fsRename(fs, ds, from, to) ==
    LET rf == realpath(from)
        rt == realpath(to) IN
    IF ~fs[rf].exists \/ dirname(rt) \notin ds THEN [ok |-> FALSE, files |-> fs]
    ELSE IF rf = rt THEN [ok |-> TRUE, files |-> fs]
    ELSE [ok |-> TRUE,
          files |-> [fs EXCEPT ![rt] = fs[rf],
                               ![rf] = [NoFile EXCEPT !.mtime = fs[rf].mtime]]]

-----------------------------------------------------------------------------
(* Patches, their results, and the progress of one apply function *)

Path_f == <<"f">>
Path_g == <<"g">>
Path_d_g == <<"d", "/", "g">>
Path_up_e == <<".", ".", "/", "e">>
Path_abs_up_e == <<"/", "p", "/", ".", ".", "/", "e">>
Path_up_p2_f == <<".", ".", "/", "p", "2", "/", "f">>

FilePatch(type, path, to, content, search, replace) ==
    [type |-> type, path |-> path, to |-> to, content |-> content,
     search |-> search, replace |-> replace]

AddPatch(path, content) == FilePatch("add", path, <<>>, content, EmptyText, EmptyText)
DeletePatch(path) == FilePatch("delete", path, <<>>, EmptyText, EmptyText, EmptyText)
UpdatePatch(path, search, replace) ==
    FilePatch("update", path, <<>>, EmptyText, search, replace)
MovePatch(path, to) == FilePatch("move", path, to, EmptyText, EmptyText, EmptyText)
ReplacePatch(path, content) ==
    FilePatch("replace", path, <<>>, content, EmptyText, EmptyText)

\* the patches a tool call is made of
PatchSet ==
    { AddPatch(Path_g, NewText), AddPatch(Path_f, NewText),
      DeletePatch(Path_f), DeletePatch(Path_up_e), DeletePatch(Path_abs_up_e),
      DeletePatch(Path_up_p2_f),
      UpdatePatch(Path_f, << <<"a">> >>, << <<"x">> >>),
      UpdatePatch(Path_f, << <<"z">> >>, << <<"x">> >>),
      UpdatePatch(Path_f, << <<"b">> >>, << <<"y">> >>),
      MovePatch(Path_f, Path_d_g), MovePatch(Path_g, Path_d_g),
      ReplacePatch(Path_f, NewText), ReplacePatch(Path_g, NewText) }

NoResult == [set |-> FALSE, ok |-> FALSE, path |-> <<>>, status |-> "", reason |-> ""]
PatchResult(ok, path, status, reason) ==
    [set |-> TRUE, ok |-> ok, path |-> path, status |-> status, reason |-> reason]

\* pc: where the apply function stands; abs, absTo: its project paths; buf:
\* the updated content an update is about to write; ops: the file system
\* calls it made so far; calls: how often the apply function was called
NewTask ==
    [pc |-> "idle", abs |-> <<>>, absTo |-> <<>>, buf |-> EmptyText,
     ops |-> <<>>, calls |-> 0, result |-> NoResult]

Logged(t, op, p) == [t EXCEPT !.ops = Append(@, [op |-> op, path |-> realpath(p)])]
Finished(t, res) == [t EXCEPT !.pc = "done", !.result = res]

\* the first file system call of each apply function
FirstStep(type) ==
    CASE type = "add" -> "add:writeFile"
      [] type = "delete" -> "delete:unlink"
      [] type = "move" -> "move:mkdir"
      [] type = "update" -> "update:readFile"
      [] type = "replace" -> "replace:stat"

\* an apply function called with the patch, run up to its first await: the
\* ensureProjectPath calls, which may throw, then the first call is issued
startPatch(patch, projectRoot) ==
    LET from == ensureProjectPath(projectRoot, patch.path)
        to == ensureProjectPath(projectRoot, patch.to)
    IN  IF from.threw \/ (patch.type = "move" /\ to.threw)
        THEN [NewTask EXCEPT !.pc = "rejected", !.calls = 1]
        ELSE [NewTask EXCEPT !.pc = FirstStep(patch.type), !.calls = 1,
                             !.abs = from.path,
                             !.absTo = IF patch.type = "move" THEN to.path ELSE <<>>]

deniedTask(patch) ==
    [NewTask EXCEPT !.pc = "denied",
        !.result = PatchResult(FALSE, patch.path, "user-denied",
                       "user decided to not allow this patch. ask them why.")]

Running == [kind |-> "running", ok |-> FALSE, status |-> "", results |-> <<>>, error |-> ""]
ExecuteThrew(message) ==
    [kind |-> "threw", ok |-> FALSE, status |-> "", results |-> <<>>, error |-> message]
ExecuteReturned(ok, status, results) ==
    [kind |-> "returned", ok |-> ok, status |-> status, results |-> results, error |-> ""]

Pending == [type |-> "pending", ids |-> {}]

-----------------------------------------------------------------------------
(* The write tools: write-files takes a batch of patches and asks which to *)
(* apply, write-file takes one patch, checks the file version, and asks or *)
(* waits out the auto-mode countdown.  Both call the same apply functions, *)
(* whose file system calls complete one at a time, in any order.           *)

MaxPatches == 2

\* fileAccessTracker: the entries of the map, at most one per path
Tracked(p, m) == [path |-> p, lastKnownMtime |-> m]
trackFileAccess(tr, absolutePath, mtime) ==
    { e \in tr : e.path # absolutePath } \cup { Tracked(absolutePath, mtime) }

\* checkFileVersion(path).isOutdated
checkFileVersion(tr, fs, p) ==
    IF ~\E e \in tr : e.path = p THEN TRUE
    ELSE IF ~fsExists(fs, p) THEN FALSE
    ELSE LET accessInfo == CHOOSE e \in tr : e.path = p IN
         fs[realpath(p)].mtime > accessInfo.lastKnownMtime

ToolInit ==
    /\ tool \in {"write-files", "write-file"}
    /\ patches \in SeqsOf(PatchSet, 1, IF tool = "write-file" THEN 1 ELSE MaxPatches)
    /\ auto \in (IF tool = "write-file" THEN BOOLEAN ELSE {FALSE})
    /\ files = InitialFiles
    /\ dirs = InitialDirs
       \* f was never read, was read as it is now, or has changed since
    /\ tracker \in (IF tool = "write-file"
                    THEN { {}, {Tracked(PathF, 1)}, {Tracked(PathF, 0)} }
                    ELSE { {} })
    /\ answer = Pending
    /\ tpc = IF tool = "write-file" THEN "check" ELSE "ask"
    /\ tasks = [i \in 1..Len(patches) |-> NewTask]
    /\ outcome = Running
    /\ CodecIdle /\ TurnIdle /\ PatchIdle /\ IgnoreIdle /\ RunIdle /\ CacheIdle /\ ParserIdle /\ ExecIdle

\* what select and multiselect can come back with for n patches
PatchesAnswers(n) ==
    { [type |-> "all", ids |-> {}], [type |-> "none", ids |-> {}],
      [type |-> "cancel", ids |-> {}] }
    \cup { [type |-> "some", ids |-> S] : S \in (SUBSET (1..n)) \ {{}} }

isAllowed_everyPatch(patchesToAllow, i) == TRUE

\* !(patchesToAllow.type === "some" && !allowedPatchIDs.includes(i))
isAllowed(patchesToAllow, i) ==
    ~(patchesToAllow.type = "some" /\ i \notin patchesToAllow.ids)

\* write-files execute, from the prompt to the end of patches.map: a cancel
\* throws, None returns, and otherwise every allowed patch's apply function
\* runs to its first await; a rejected apply function rejects Promise.all
AskWhichPatchesToAllow ==
    /\ tool = "write-files"
    /\ tpc = "ask"
    /\ \E patchesToAllow \in PatchesAnswers(Len(patches)) :
        /\ answer' = patchesToAllow
        /\ IF patchesToAllow.type = "cancel"
           THEN /\ outcome' = ExecuteThrew("user has canceled")
                /\ tpc' = "done"
                /\ UNCHANGED tasks
           ELSE IF patchesToAllow.type = "none"
           THEN /\ outcome' = ExecuteReturned(FALSE, "user-denied", <<>>)
                /\ tpc' = "done"
                /\ UNCHANGED tasks
           ELSE LET started ==
                      [i \in 1..Len(patches) |->
                          IF isAllowed(patchesToAllow, i)
                          THEN startPatch(patches[i], cwd)
                          ELSE deniedTask(patches[i])]
                IN  /\ tasks' = started
                    /\ tpc' = "io"
                    /\ outcome' =
                         IF \E i \in 1..Len(patches) : started[i].pc = "rejected"
                         THEN ExecuteThrew("Path outside project root")
                         ELSE Running
    /\ UNCHANGED <<tool, patches, auto, files, dirs, tracker>>
    /\ UNCHANGED <<codecVars, turnVars, patchVars, ignoreVars, runVars, cacheVars, parserVars, execVars>>

\* applyAddPatch after writeFile(projectPath, content, {flag: "wx"})
ApplyAddPatchWrite(i) ==
    /\ tpc = "io"
    /\ tasks[i].pc = "add:writeFile"
    /\ LET w == fsWriteFile(files, dirs, tasks[i].abs, patches[i].content, "wx")
           t == Logged(tasks[i], "writeFile", tasks[i].abs)
       IN  /\ files' = w.files
           /\ tasks' = [tasks EXCEPT ![i] = Finished(t,
                  IF w.ok THEN PatchResult(TRUE, patches[i].path, "add", "")
                  ELSE PatchResult(FALSE, patches[i].path, "add-failed",
                                   "file already exists"))]
    /\ UNCHANGED <<tool, patches, auto, dirs, tracker, answer, tpc, outcome>>
    /\ UNCHANGED <<codecVars, turnVars, patchVars, ignoreVars, runVars, cacheVars, parserVars, execVars>>

\* applyDeletePatch after unlink(projectPath)
ApplyDeletePatchUnlink(i) ==
    /\ tpc = "io"
    /\ tasks[i].pc = "delete:unlink"
    /\ LET u == fsUnlink(files, tasks[i].abs)
           t == Logged(tasks[i], "unlink", tasks[i].abs)
       IN  /\ files' = u.files
           /\ tasks' = [tasks EXCEPT ![i] = Finished(t,
                  IF u.ok THEN PatchResult(TRUE, patches[i].path, "delete", "")
                  ELSE PatchResult(FALSE, patches[i].path, "delete-failed",
                                   "failed to delete file"))]
    /\ UNCHANGED <<tool, patches, auto, dirs, tracker, answer, tpc, outcome>>
    /\ UNCHANGED <<codecVars, turnVars, patchVars, ignoreVars, runVars, cacheVars, parserVars, execVars>>

\* applyMovePatch after mkdir(dirname(projectPathTo), {recursive: true})
ApplyMovePatchMkdir(i) ==
    /\ tpc = "io"
    /\ tasks[i].pc = "move:mkdir"
    /\ LET dir == dirname(tasks[i].absTo)
           t == Logged(tasks[i], "mkdir", dir)
       IN  /\ dirs' = dirs \cup DirAndAncestors(realpath(dir))
           /\ tasks' = [tasks EXCEPT ![i] = [t EXCEPT !.pc = "move:rename"]]
    /\ UNCHANGED <<tool, patches, auto, files, tracker, answer, tpc, outcome>>
    /\ UNCHANGED <<codecVars, turnVars, patchVars, ignoreVars, runVars, cacheVars, parserVars, execVars>>

\* applyMovePatch after rename(projectPathFrom, projectPathTo)
ApplyMovePatchRename(i) ==
    /\ tpc = "io"
    /\ tasks[i].pc = "move:rename"
    /\ LET r == fsRename(files, dirs, tasks[i].abs, tasks[i].absTo)
           t == Logged(tasks[i], "rename", tasks[i].abs)
       IN  /\ files' = r.files
           /\ tasks' = [tasks EXCEPT ![i] = Finished(t,
                  IF r.ok THEN PatchResult(TRUE, patches[i].path, "move", "")
                  ELSE PatchResult(FALSE, patches[i].path, "move-failed",
                                   "failed to move file"))]
    /\ UNCHANGED <<tool, patches, auto, dirs, tracker, answer, tpc, outcome>>
    /\ UNCHANGED <<codecVars, turnVars, patchVars, ignoreVars, runVars, cacheVars, parserVars, execVars>>

\* applyUpdatePatch after readFile(projectPath), through applyPatchToString
ApplyUpdatePatchRead(i) ==
    /\ tpc = "io"
    /\ tasks[i].pc = "update:readFile"
    /\ LET t == Logged(tasks[i], "readFile", tasks[i].abs)
           updatedContentRes ==
               applyPatchToString(files[realpath(tasks[i].abs)].text, patches[i])
       IN  tasks' = [tasks EXCEPT ![i] =
               IF ~fsExists(files, tasks[i].abs)
               THEN Finished(t, PatchResult(FALSE, patches[i].path,
                                    "update-failed", "failed to read file"))
               ELSE IF ~updatedContentRes.ok
               THEN Finished(t, PatchResult(FALSE, patches[i].path,
                                    "update-failed", updatedContentRes.error))
               ELSE [t EXCEPT !.pc = "update:writeFile",
                              !.buf = updatedContentRes.text]]
    /\ UNCHANGED <<tool, patches, auto, files, dirs, tracker, answer, tpc, outcome>>
    /\ UNCHANGED <<codecVars, turnVars, patchVars, ignoreVars, runVars, cacheVars, parserVars, execVars>>

\* applyUpdatePatch after writeFile(projectPath, updatedContentRes.data)
ApplyUpdatePatchWrite(i) ==
    /\ tpc = "io"
    /\ tasks[i].pc = "update:writeFile"
    /\ LET w == fsWriteFile(files, dirs, tasks[i].abs, tasks[i].buf, "w")
           t == Logged(tasks[i], "writeFile", tasks[i].abs)
       IN  /\ files' = w.files
           /\ tasks' = [tasks EXCEPT ![i] = Finished(t,
                  IF w.ok
                  THEN PatchResult(TRUE, patches[i].path, "update-successful", "")
                  ELSE PatchResult(FALSE, patches[i].path, "update-failed",
                                   "failed to write update result"))]
    /\ UNCHANGED <<tool, patches, auto, dirs, tracker, answer, tpc, outcome>>
    /\ UNCHANGED <<codecVars, turnVars, patchVars, ignoreVars, runVars, cacheVars, parserVars, execVars>>

\* applyReplacePatch after stat(projectPath)
ApplyReplacePatchStat(i) ==
    /\ tpc = "io"
    /\ tasks[i].pc = "replace:stat"
    /\ LET t == Logged(tasks[i], "stat", tasks[i].abs) IN
       tasks' = [tasks EXCEPT ![i] =
           IF ~fsExists(files, tasks[i].abs)
           THEN Finished(t, PatchResult(FALSE, patches[i].path,
                                "replace-failed", "file not found"))
           ELSE [t EXCEPT !.pc = "replace:writeFile"]]
    /\ UNCHANGED <<tool, patches, auto, files, dirs, tracker, answer, tpc, outcome>>
    /\ UNCHANGED <<codecVars, turnVars, patchVars, ignoreVars, runVars, cacheVars, parserVars, execVars>>

\* applyReplacePatch after writeFile(projectPath, patch.content)
ApplyReplacePatchWrite(i) ==
    /\ tpc = "io"
    /\ tasks[i].pc = "replace:writeFile"
    /\ LET w == fsWriteFile(files, dirs, tasks[i].abs, patches[i].content, "w")
           t == Logged(tasks[i], "writeFile", tasks[i].abs)
       IN  /\ files' = w.files
           /\ tasks' = [tasks EXCEPT ![i] = Finished(t,
                  IF w.ok THEN PatchResult(TRUE, patches[i].path, "replace", "")
                  ELSE PatchResult(FALSE, patches[i].path, "replace-failed",
                                   "failed to write file"))]
    /\ UNCHANGED <<tool, patches, auto, dirs, tracker, answer, tpc, outcome>>
    /\ UNCHANGED <<codecVars, turnVars, patchVars, ignoreVars, runVars, cacheVars, parserVars, execVars>>

\* write-files execute after Promise.all resolved: return {ok, results}
ReturnResults ==
    /\ tool = "write-files"
    /\ tpc = "io"
    /\ outcome = Running
    /\ \A i \in 1..Len(tasks) : tasks[i].pc \in {"done", "denied"}
    /\ LET results == [i \in 1..Len(tasks) |-> tasks[i].result] IN
       outcome' = ExecuteReturned(\A i \in 1..Len(tasks) : results[i].ok, "", results)
    /\ tpc' = "done"
    /\ UNCHANGED <<tool, patches, auto, files, dirs, tracker, answer, tasks>>
    /\ UNCHANGED <<codecVars, turnVars, patchVars, ignoreVars, runVars, cacheVars, parserVars, execVars>>

\* write-file execute up to the consent step: for an update or a replace the
\* path is checked and a file the model has not read as it is now is refused
CheckFileVersion ==
    /\ tool = "write-file"
    /\ tpc = "check"
    /\ LET patch == patches[1]
           modifies == patch.type \in {"update", "replace"}
           fileToModify == ensureProjectPath(cwd, patch.path)
       IN  IF modifies /\ fileToModify.threw
           THEN /\ outcome' = ExecuteThrew("Path outside project root")
                /\ tpc' = "done"
           ELSE IF modifies /\ checkFileVersion(tracker, files, fileToModify.path)
           THEN /\ outcome' = ExecuteReturned(FALSE, "file-outdated", <<>>)
                /\ tpc' = "done"
           ELSE /\ tpc' = IF auto THEN "auto" ELSE "ask"
                /\ UNCHANGED outcome
    /\ UNCHANGED <<tool, patches, auto, files, dirs, tracker, answer, tasks>>
    /\ UNCHANGED <<codecVars, turnVars, patchVars, ignoreVars, runVars, cacheVars, parserVars, execVars>>

\* const result = await applyPatch(patch, cwd), up to its first await
StartApplyPatch ==
    LET started == startPatch(patches[1], cwd) IN
    /\ tasks' = <<started>>
    /\ IF started.pc = "rejected"
       THEN outcome' = ExecuteThrew("Path outside project root") /\ tpc' = "done"
       ELSE outcome' = outcome /\ tpc' = "io"

\* maybeAutoMode with auto on: the countdown runs out or ENTER is pressed
\* (proceed), or SPACE is pressed (cancel, and the prompt is shown)
MaybeAutoMode ==
    /\ tool = "write-file"
    /\ tpc = "auto"
    /\ \E key \in {"none", "enter", "space"} :
        IF key = "space"
        THEN /\ tpc' = "ask"
             /\ UNCHANGED <<answer, tasks, outcome>>
        ELSE /\ answer' = [type |-> IF key = "enter" THEN "auto-enter" ELSE "auto",
                           ids |-> {}]
             /\ StartApplyPatch
    /\ UNCHANGED <<tool, patches, auto, files, dirs, tracker>>
    /\ UNCHANGED <<codecVars, turnVars, patchVars, ignoreVars, runVars, cacheVars, parserVars, execVars>>

\* askWhichPatchToAllow and what execute does with the answer
AskWhichPatchToAllow ==
    /\ tool = "write-file"
    /\ tpc = "ask"
    /\ \E response \in {"allow", "deny", "cancel"} :
        /\ answer' = [type |-> response, ids |-> {}]
        /\ IF response = "cancel"
           THEN /\ outcome' = ExecuteThrew("user has canceled")
                /\ tpc' = "done"
                /\ UNCHANGED tasks
           ELSE IF response = "deny"
           THEN /\ outcome' = ExecuteReturned(FALSE, "user-denied", <<>>)
                /\ tpc' = "done"
                /\ UNCHANGED tasks
           ELSE StartApplyPatch
    /\ UNCHANGED <<tool, patches, auto, files, dirs, tracker>>
    /\ UNCHANGED <<codecVars, turnVars, patchVars, ignoreVars, runVars, cacheVars, parserVars, execVars>>

\* write-file execute after applyPatch: a successful patch's file is stat'ed
\* and tracked, and {ok, result} is returned
TrackAndReturn ==
    /\ tool = "write-file"
    /\ tpc = "io"
    /\ tasks[1].pc = "done"
    /\ LET result == tasks[1].result
           modifiedFilePath ==
               ensureProjectPath(cwd, IF patches[1].type = "move" THEN patches[1].to
                                      ELSE patches[1].path).path
       IN  /\ tracker' =
                IF result.ok /\ fsExists(files, modifiedFilePath)
                THEN trackFileAccess(tracker, modifiedFilePath,
                                     files[realpath(modifiedFilePath)].mtime)
                ELSE tracker
           /\ outcome' = ExecuteReturned(result.ok, "", <<result>>)
    /\ tpc' = "done"
    /\ UNCHANGED <<tool, patches, auto, files, dirs, answer, tasks>>
    /\ UNCHANGED <<codecVars, turnVars, patchVars, ignoreVars, runVars, cacheVars, parserVars, execVars>>

ToolNext ==
    \/ AskWhichPatchesToAllow
    \/ ReturnResults
    \/ CheckFileVersion
    \/ MaybeAutoMode
    \/ AskWhichPatchToAllow
    \/ TrackAndReturn
    \/ \E i \in 1..Len(tasks) : ApplyAddPatchWrite(i)
    \/ \E i \in 1..Len(tasks) : ApplyDeletePatchUnlink(i)
    \/ \E i \in 1..Len(tasks) : ApplyMovePatchMkdir(i)
    \/ \E i \in 1..Len(tasks) : ApplyMovePatchRename(i)
    \/ \E i \in 1..Len(tasks) : ApplyUpdatePatchRead(i)
    \/ \E i \in 1..Len(tasks) : ApplyUpdatePatchWrite(i)
    \/ \E i \in 1..Len(tasks) : ApplyReplacePatchStat(i)
    \/ \E i \in 1..Len(tasks) : ApplyReplacePatchWrite(i)

SpecTool == ToolInit /\ [][ToolNext]_vars

-----------------------------------------------------------------------------
(* Properties of the write tools *)

\* a human said yes to patch i: All, Some with i selected, Yes, or ENTER
\* during the auto-mode countdown
Approved(i) ==
    \/ answer.type \in {"all", "allow", "auto-enter"}
    \/ answer.type = "some" /\ i \in answer.ids

\* auto mode let the patch through: the countdown ran out with no key pressed
AutoElapsed == tool = "write-file" /\ auto /\ answer.type = "auto"

NoDuplicates(s) == \A j, k \in 1..Len(s) : j # k => s[j] # s[k]

DiskUnchanged == files = InitialFiles /\ dirs = InitialDirs

ConsentRespected(autoCounts) ==
    /\ \A i \in 1..Len(tasks) :
        /\ (tasks[i].calls > 0 \/ tasks[i].ops # <<>>)
              => (Approved(i) \/ (autoCounts /\ AutoElapsed))
        /\ tasks[i].calls <= 1
        /\ NoDuplicates(tasks[i].ops)
        /\ (answer.type = "some" /\ i \notin answer.ids) =>
              /\ tasks[i].pc = "denied"
              /\ tasks[i].ops = <<>>
              /\ tasks[i].result.set
              /\ ~tasks[i].result.ok
              /\ tasks[i].result.status = "user-denied"
        /\ (answer.type = "some" /\ i \in answer.ids) => tasks[i].calls = 1
    /\ answer.type \in {"none", "deny", "cancel"} => DiskUnchanged
    /\ answer.type \in {"none", "deny"} =>
          /\ outcome.kind = "returned"
          /\ ~outcome.ok
          /\ outcome.status = "user-denied"
    /\ ~DiskUnchanged =>
          \E i \in 1..Len(tasks) :
              tasks[i].ops # <<>> /\ (Approved(i) \/ (autoCounts /\ AutoElapsed))

Location(p) == realpath(IF isAbsolute(p) THEN p ELSE cwd \o <<"/">> \o p)

\* the project root itself or something below it
InsideRoot(loc) == loc = cwd \/ startsWith(loc, cwd \o <<"/">>)

Escapes(patch) ==
    \/ ~InsideRoot(Location(patch.path))
    \/ patch.type = "move" /\ ~InsideRoot(Location(patch.to))

\* C5: a patch with a path that resolves outside the project root makes no
\* file system call, and its apply function, once called, rejects it
C5_EscapingPathRejected ==
    \A i \in 1..Len(tasks) :
        Escapes(patches[i]) =>
            /\ tasks[i].ops = <<>>
            /\ tasks[i].calls > 0 => tasks[i].pc = "rejected"

NoMatchResult(patch) ==
    PatchResult(FALSE, patch.path, "update-failed",
                "did not find a match for the search lines")

HasWritten(t) == \E k \in 1..Len(t.ops) : t.ops[k].op = "writeFile"

C9_AddOnExistingPathFails ==
    [][\A i \in 1..Len(tasks) :
        ( /\ tasks[i].pc = "add:writeFile"
          /\ tasks'[i].pc # "add:writeFile"
          /\ fsExists(files, tasks[i].abs) )
        => /\ tasks'[i].result =
                PatchResult(FALSE, patches[i].path, "add-failed",
                            "file already exists")
           /\ files' = files]_vars

\* an add of f, which exists, ended add-failed and f has its old content
C9_Witness ==
    \E i \in 1..Len(tasks) :
        /\ patches[i] = AddPatch(Path_f, NewText)
        /\ tasks[i].result.status = "add-failed"
        /\ files[PathF] = InitialFiles[PathF]

\* C10: once the user allowed patches of a batch, the tool call does not
\* throw, and what it returns has one result per patch, in request order,
\* each the result of that patch's own apply function
C10_BatchReturnsEveryResult ==
    (tool = "write-files" /\ answer.type \in {"all", "some"}) =>
        /\ outcome.kind # "threw"
        /\ outcome.kind = "returned" =>
            /\ Len(outcome.results) = Len(patches)
            /\ \A i \in 1..Len(patches) :
                /\ outcome.results[i].set
                /\ outcome.results[i].path = patches[i].path
                /\ outcome.results[i] = tasks[i].result

C10_BatchWithoutEscapeReturnsEveryResult ==
    (tool = "write-files" /\ answer.type \in {"all", "some"}
        /\ \A i \in 1..Len(tasks) : tasks[i].pc # "rejected") =>
        /\ outcome.kind # "threw"
        /\ outcome.kind = "returned" =>
            /\ Len(outcome.results) = Len(patches)
            /\ \A i \in 1..Len(patches) :
                /\ outcome.results[i].set
                /\ outcome.results[i].path = patches[i].path
                /\ outcome.results[i] = tasks[i].result

-----------------------------------------------------------------------------
(* Codec properties about compression and part separation (SpecCodec)      *)

\* C17: parsing the output written with compression on gives the same
\* messages as parsing the output written with compression off
C17_CompressionTransparent ==
    cpc = "parsed" =>
        parsed = markdownToMessages(messagesToMarkdown(messages, ~compressed).md)

\* a part as the file shows it: a text as it is, a tool part as its fence
\* from the opening marker to the closing marker
PartBlock(p, compress) ==
    CASE p.type = "text" -> p.text
      [] p.type = "tool-call" ->
            SubSeq(toolCallFence(p, compress), 2, 4)
      [] p.type = "tool-result" ->
            SubSeq(toolResultFence(p, compress), 2, 4)

\* the blocks of parts[i..], each two separated by exactly one blank line
RECURSIVE JoinedByOneBlankLine(_, _, _)
JoinedByOneBlankLine(parts, compress, i) ==
    IF i = Len(parts) THEN PartBlock(parts[i], compress)
    ELSE Cat(Cat(PartBlock(parts[i], compress), NLNL),
             JoinedByOneBlankLine(parts, compress, i + 1))

\* a Text without the empty lines it starts and ends with
RECURSIVE StripOuterNewlines(_)
StripOuterNewlines(t) ==
    IF Len(t) > 1 /\ Head(t) = <<>> THEN StripOuterNewlines(Tail(t))
    ELSE IF Len(t) > 1 /\ Last(t) = <<>> THEN StripOuterNewlines(Front(t))
    ELSE t

EndsWithBlankLine(t) ==
    Len(t) > 2 /\ Last(t) = <<>> /\ t[Len(t) - 1] = <<>>

HasParts(msg) == ~msg.content.isString /\ Len(msg.content.parts) > 0

\* C19: the parts of every serialized message are separated by exactly one
\* blank line, and no blank line follows the last part
C19_PartsOneBlankLineApart ==
    cpc = "serialized" =>
        \A k \in 1..Len(messages) :
            HasParts(messages[k]) =>
                LET body == serializeBody(messages[k], compressed).md IN
                /\ StripOuterNewlines(body)
                     = JoinedByOneBlankLine(messages[k].content.parts, compressed, 1)
                /\ ~EndsWithBlankLine(body)

\* the same for messages whose parts are all texts or all tool results
C19_SameKindPartsOneBlankLineApart ==
    cpc = "serialized" =>
        \A k \in 1..Len(messages) :
            (/\ HasParts(messages[k])
             /\ \A i \in 1..Len(messages[k].content.parts) :
                    messages[k].content.parts[i].type \in {"text", "tool-result"})
            => LET body == serializeBody(messages[k], compressed).md IN
               /\ StripOuterNewlines(body)
                    = JoinedByOneBlankLine(messages[k].content.parts, compressed, 1)
               /\ ~EndsWithBlankLine(body)

-----------------------------------------------------------------------------
(* Sectioning of a hand-written file into messages (SpecParse)             *)

\* the roles of the role headings among blocks i.., in file order
RECURSIVE RoleHeadings(_, _)
RoleHeadings(cs, i) ==
    IF i > Len(cs) THEN <<>>
    ELSE IF OpensSection(cs[i])
    THEN <<ToLowerCase(cs[i].word)>> \o RoleHeadings(cs, i + 1)
    ELSE RoleHeadings(cs, i + 1)

\* the number of role headings among the first i blocks
SectionIndexAt(cs, i) == Len(RoleHeadings(SubSeq(cs, 1, i), 1))

\* the lines of the texts of a message content
RECURSIVE PartsTextLines(_)
PartsTextLines(ps) ==
    IF ps = <<>> THEN {}
    ELSE (IF Head(ps).type = "text"
          THEN {Head(ps).text[j] : j \in 1..Len(Head(ps).text)} ELSE {})
         \cup PartsTextLines(Tail(ps))

ContentTextLines(c) ==
    IF c.isString THEN {c.text[j] : j \in 1..Len(c.text)}
    ELSE PartsTextLines(c.parts)

NoSystemHeading(cs) ==
    \A i \in 1..Len(cs) : ~(OpensSection(cs[i]) /\ ToLowerCase(cs[i].word) = "system")

Sectioned(cs, msgs) ==
    \* one message per role heading, with the heading's role, in order
    /\ Len(msgs) = Len(RoleHeadings(cs, 1))
    /\ \A k \in 1..Len(msgs) : msgs[k].role = RoleHeadings(cs, 1)[k]
    \* a heading of another level or text is text of the section it lies in
    /\ \A i \in 1..Len(cs) :
          (cs[i].kind = "heading" /\ ~OpensSection(cs[i]) /\ SectionIndexAt(cs, i) > 0)
            => ChunkLines(cs[i])[1]
                 \in ContentTextLines(msgs[SectionIndexAt(cs, i)].content)
    \* what precedes the first role heading is in no message
    /\ (Len(RoleHeadings(cs, 1)) = 1 /\ OpensSection(Last(cs)))
            => msgs[1].content = Str(EmptyText)

\* C18: "## system|user|assistant|tool" (trimmed, any case) opens a message
\* of that role, any other heading stays in its section as text, content
\* before the first role heading is dropped, one message per role heading
C18_RoleHeadingsOpenMessages ==
    (cpc = "parsed" /\ parsed.ok) => Sectioned(chunks, parsed.msgs)

\* the same for files without a "## system" heading
C18_RoleHeadingsOpenMessagesNoSystem ==
    (cpc = "parsed" /\ parsed.ok /\ NoSystemHeading(chunks))
        => Sectioned(chunks, parsed.msgs)

-----------------------------------------------------------------------------
(* Ignore compiler, src/tools/_shared.ts lines 90-115.  A line of a        *)
(* .gitignore file is a sequence of tokens: the characters "!", "/", "*",  *)
(* ".", "#", the blank, the carriage return, and words without any of      *)
(* these.  A pattern is such a sequence too.                               *)

\* content.split(/\r?\n/): a carriage return right before a newline goes
splitLines(content) ==
    [i \in 1..Len(content) |->
        IF i < Len(content) /\ content[i] # <<>> /\ Last(content[i]) = CR
        THEN Front(content[i]) ELSE content[i]]

\* comment lines kept
keepLine_keepsComments(line) == line # <<>>

\* .filter((line) => line && !line.startsWith("#"))
keepLine(line) == line # <<>> /\ Head(line) # "#"

includes(l, tok) == \E j \in 1..Len(l) : l[j] = tok

endsWith(l, tok) == l # <<>> /\ Last(l) = tok

negate(isNeg, p) == IF isNeg THEN <<"!">> \o p ELSE p

\* a directory rule compiled to its bare pattern only
compileLine_noDirContents(raw) ==
    LET isNeg == Head(raw) = "!"
        pat1 == IF isNeg THEN Tail(raw) ELSE raw
        anchored == pat1 # <<>> /\ Head(pat1) = "/"
        pat2 == IF anchored THEN Tail(pat1) ELSE pat1
        isDirRule == endsWith(pat2, "/")
                     \/ (~includes(pat2, "*") /\ ~includes(pat2, "."))
        pat == IF isDirRule /\ endsWith(pat2, "/") THEN Front(pat2) ELSE pat2
        base == IF anchored THEN pat ELSE <<"*", "*", "/">> \o pat
    IN <<negate(isNeg, base)>>

\* the flatMap callback: the patterns of one trimmed, kept line
compileLine(raw) ==
    LET isNeg == Head(raw) = "!"
        pat1 == IF isNeg THEN Tail(raw) ELSE raw
        anchored == pat1 # <<>> /\ Head(pat1) = "/"
        pat2 == IF anchored THEN Tail(pat1) ELSE pat1
        isDirRule == endsWith(pat2, "/")
                     \/ (~includes(pat2, "*") /\ ~includes(pat2, "."))
        pat == IF isDirRule /\ endsWith(pat2, "/") THEN Front(pat2) ELSE pat2
        base == IF anchored THEN pat ELSE <<"*", "*", "/">> \o pat
    IN IF isDirRule
       THEN <<negate(isNeg, base), negate(isNeg, base \o <<"/", "*", "*">>)>>
       ELSE <<negate(isNeg, base)>>

RECURSIVE parseGitignoreFrom(_, _)
parseGitignoreFrom(lines, i) ==
    IF i > Len(lines) THEN <<>>
    ELSE LET line == TrimLine(lines[i]) IN
         (IF keepLine(line) THEN compileLine(line) ELSE <<>>)
            \o parseGitignoreFrom(lines, i + 1)

parseGitignore(content) == parseGitignoreFrom(splitLines(content), 1)

-----------------------------------------------------------------------------
(* Ignore compiler specification: a .gitignore of up to MaxIgnoreLines     *)
(* lines is compiled.                                                      *)

MaxIgnoreLines == 2

IgnoreBodies ==
    {<<"build">>, <<"*", ".", "log">>, <<"config", ".", "json">>, <<"dir">>}

\* rules with and without "!", leading "/", trailing "/", bare or with
\* blanks around them and a carriage return at the end
RuleLines ==
    {(IF pad THEN <<" ">> ELSE <<>>) \o n \o a \o b \o d
        \o (IF pad THEN <<" ", CR>> ELSE <<>>) :
        n \in {<<>>, <<"!">>}, a \in {<<>>, <<"/">>}, b \in IgnoreBodies,
        d \in {<<>>, <<"/">>}, pad \in BOOLEAN}

IgnoreLines ==
    RuleLines \cup {<<>>, <<" ">>, <<"#", "c">>, <<" ", "#", "c">>}

IgnoreInit ==
    /\ gitignore \in SeqsOf(IgnoreLines, 1, MaxIgnoreLines)
    /\ ignored = <<>>
    /\ ipc = "start"
    /\ CodecIdle /\ TurnIdle /\ PatchIdle /\ ToolIdle /\ RunIdle /\ CacheIdle /\ ParserIdle /\ ExecIdle

\* let patterns = parseGitignore(content)
ParseGitignore ==
    /\ ipc = "start"
    /\ ignored' = parseGitignore(gitignore)
    /\ ipc' = "done"
    /\ UNCHANGED gitignore
    /\ UNCHANGED <<codecVars, turnVars, patchVars, toolVars, runVars, cacheVars, parserVars, execVars>>

IgnoreNext == ParseGitignore

SpecIgnore == IgnoreInit /\ [][IgnoreNext]_vars

\* the .gitignore made of one line
OneLine(l) == <<l>>

Compiles(l, ps) == gitignore = OneLine(l) => ignored = ps

\* C20: "build/" gives build and build/**, "*.log" gives **/*.log,
\* "/config.json" gives config.json, "!dir/" gives !**/dir and !**/dir/**,
\* the empty text gives no pattern
C20_Examples ==
    ipc = "done" =>
        /\ Compiles(<<"build", "/">>, << <<"build">>, <<"build", "/", "*", "*">> >>)
        /\ Compiles(<<"*", ".", "log">>, << <<"*", "*", "/", "*", ".", "log">> >>)
        /\ Compiles(<<"/", "config", ".", "json">>, << <<"config", ".", "json">> >>)
        /\ Compiles(<<"!", "dir", "/">>,
                    << <<"!", "*", "*", "/", "dir">>,
                       <<"!", "*", "*", "/", "dir", "/", "*", "*">> >>)
        /\ Compiles(<<>>, <<>>)

\* C20 as amended: "build/" gives **/build and **/build/**, it is "/build/"
\* that gives build and build/**; the other examples as stated
C20_ExamplesUnanchoredBuild ==
    ipc = "done" =>
        /\ Compiles(<<"build", "/">>,
                    << <<"*", "*", "/", "build">>,
                       <<"*", "*", "/", "build", "/", "*", "*">> >>)
        /\ Compiles(<<"/", "build", "/">>,
                    << <<"build">>, <<"build", "/", "*", "*">> >>)
        /\ Compiles(<<"*", ".", "log">>, << <<"*", "*", "/", "*", ".", "log">> >>)
        /\ Compiles(<<"/", "config", ".", "json">>, << <<"config", ".", "json">> >>)
        /\ Compiles(<<"!", "dir", "/">>,
                    << <<"!", "*", "*", "/", "dir">>,
                       <<"!", "*", "*", "/", "dir", "/", "*", "*">> >>)
        /\ Compiles(<<>>, <<>>)

C20_Witness ==
    /\ ipc = "done"
    /\ gitignore = OneLine(<<"build", "/">>)
    /\ ignored = << <<"*", "*", "/", "build">>,
                    <<"*", "*", "/", "build", "/", "*", "*">> >>

-----------------------------------------------------------------------------
(* Chat loop: src/chat.ts lines 47-169 (class MarkdownAI, which asks with  *)
(* confirm before a model call) and src/prompts.ts lines 99-235            *)
(* (runMarkdownAI, which asks with a select that also offers the editor).  *)
(* The run waits at the prompts, on the editor and on the model stream;    *)
(* each wait is a position of rpc.                                         *)

MaxIterations == 3

\* "\n## user\n"
UserHeading == << <<>>, <<"##", " ", "user">>, <<>> >>

\* the system message put in the place of the first message
requestMessages_overwritesFirst(ms, system) ==
    IF system # EmptyText
    THEN <<Msg("system", Str(system))>> \o (IF ms = <<>> THEN <<>> ELSE Tail(ms))
    ELSE ms

\* let msgs = [...messages]; if (ai.system) msgs.unshift({role: "system", ...})
requestMessages(ms, system) ==
    IF system # EmptyText THEN <<Msg("system", Str(system))>> \o ms ELSE ms

\* the heading appended whatever addHeading says
appendHeading_always(current, addHeading) == Cat(current, UserHeading)

\* if (addHeading) await appendFile(path, "\n## user\n")
appendHeading(current, addHeading) ==
    IF addHeading THEN Cat(current, UserHeading) ELSE current

UserCall(addHeading) == [fn |-> "performUserTurn", flag |-> addHeading]
AICall(skipConfirm) == [fn |-> "performAITurn", flag |-> skipConfirm]

\* the two role tests of the loop body the wrong way round
dispatch_rolesSwapped(t) ==
    IF t.role = "user" THEN AICall(FALSE) ELSE UserCall(FALSE)

\* the loop body of run: which turn function is called, with which flag
dispatch(t) ==
    IF t.role = "user" THEN UserCall(t.addHeading) ELSE AICall(t.skipConfirm)

\* the file is emptied before the content is there
writeChatFile_truncateFirst(current, ms, compress) ==
    LET content == messagesToMarkdown(ms, compress) IN
    IF content.ok THEN [threw |-> FALSE, file |-> content.md]
    ELSE [threw |-> TRUE, file |-> EmptyText]

\* writeChatFile: the file after the call, and whether the call threw
writeChatFile(current, ms, compress) ==
    LET content == messagesToMarkdown(ms, compress) IN
    IF content.ok THEN [threw |-> FALSE, file |-> content.md]
    ELSE [threw |-> TRUE, file |-> current]

ReasoningPart ==
    [type |-> "reasoning", text |-> << <<"a">> >>, toolCallId |-> "",
     toolName |-> "", data |-> ""]

\* what the model may answer: a text, a tool call with its result, a part
\* the serializer does not support
Responses ==
    {<<Msg("assistant", Str(<< <<"a">> >>))>>,
     <<Msg("assistant", Arr(<<TextPart(<< <<"a">> >>)>>))>>,
     <<Msg("assistant", Arr(<<ToolCallPart("c1", "listFiles", "A1")>>)),
       Msg("tool", Arr(<<ToolResultPart("c1", "listFiles", "R1")>>))>>,
     <<Msg("assistant", Arr(<<ReasoningPart>>))>>}

\* conversation files a run starts on: empty, written by an earlier run,
\* or holding a tool call in a user section
InitialChats ==
    {EmptyText,
     messagesToMarkdown(<<Msg("user", Str(<< <<"a">> >>))>>, FALSE).md,
     messagesToMarkdown(<<Msg("user", Str(<< <<"a">> >>)),
                          Msg("assistant", Str(<< <<"a">> >>))>>, FALSE).md,
     messagesToMarkdown(<<Msg("user", Str(<< <<"a">> >>)),
                          Msg("assistant", Arr(<<ToolCallPart("c1", "listFiles", "A1")>>)),
                          Msg("tool", Arr(<<ToolResultPart("c1", "listFiles", "R1")>>))>>,
                        FALSE).md,
     ChunksText(<<HeadingChunk("##", "user"), FenceChunk("tool-call", "{c1:A1}")>>)}

\* what the user may add to the file in the editor: nothing, a line of
\* text, a tool-result fence
Edits ==
    {EmptyText, << <<"a">>, <<>> >>,
     << <<BT3, "tool-result">>, <<"{r1:R1}">>, <<BT3>>, <<>> >>}

RunInit ==
    /\ chatFile \in InitialChats
    /\ variant \in {"confirm", "select"}
    /\ aiSystem \in {EmptyText, << <<"s">> >>}
    /\ withCompression \in BOOLEAN
    /\ rpc = "loop"
    /\ iteration = 0
    /\ turnMessages = <<>>
    /\ turn = Undecided
    /\ turnStartFile = EmptyText
    /\ modelMessages = <<>>
    /\ responseMessages = <<>>
    /\ asked = "none"
    /\ writes = 0
    /\ ending = "none"
    /\ CodecIdle /\ TurnIdle /\ PatchIdle /\ ToolIdle /\ IgnoreIdle /\ CacheIdle /\ ParserIdle /\ ExecIdle

\* one pass through the head of the while loop: readAndParseChatFile,
\* determineNextTurn, and the called turn function up to its first wait
BeginIteration ==
    /\ rpc = "loop"
    /\ iteration < MaxIterations
    /\ iteration' = iteration + 1
    /\ turnStartFile' = chatFile
    /\ responseMessages' = <<>>
    /\ asked' = "none"
    /\ writes' = 0
    /\ LET r == markdownToMessages(chatFile) IN
       IF ~r.ok
       THEN /\ rpc' = "rejected"
            /\ ending' = "failed"
            /\ turnMessages' = <<>>
            /\ turn' = Undecided
            /\ modelMessages' = <<>>
            /\ UNCHANGED chatFile
       ELSE LET t == determineNextTurn(r.msgs)
                call == dispatch(t)
            IN /\ turnMessages' = r.msgs
               /\ turn' = t
               /\ ending' = "none"
               /\ IF call.fn = "performUserTurn"
                  THEN /\ chatFile' = appendHeading(chatFile, call.flag)
                       /\ rpc' = "userSelect"
                       /\ modelMessages' = <<>>
                  ELSE /\ UNCHANGED chatFile
                       /\ rpc' = IF call.flag THEN "stream" ELSE "aiAsk"
                       /\ modelMessages' =
                            IF call.flag
                            THEN <<requestMessages(r.msgs, aiSystem)>> ELSE <<>>
    /\ UNCHANGED <<variant, aiSystem, withCompression>>
    /\ UNCHANGED <<codecVars, turnVars, patchVars, toolVars, ignoreVars, cacheVars, parserVars, execVars>>

\* the select of performUserTurn is answered
UserSelect ==
    /\ rpc = "userSelect"
    /\ \E choice \in {"open-editor", "prompt-directly", "stop", "cancel"} :
        /\ rpc' = CASE choice = "open-editor" -> "userEditor"
                    [] choice = "prompt-directly" -> "userText"
                    [] OTHER -> "returned"
        /\ ending' = IF choice \in {"stop", "cancel"} THEN "stopped" ELSE ending
    /\ UNCHANGED <<chatFile, variant, aiSystem, withCompression, iteration,
                   turnMessages, turn, turnStartFile, modelMessages,
                   responseMessages, asked, writes>>
    /\ UNCHANGED <<codecVars, turnVars, patchVars, toolVars, ignoreVars, cacheVars, parserVars, execVars>>

\* the text prompt of performUserTurn is answered or cancelled
UserText ==
    /\ rpc = "userText"
    /\ \E input \in {[cancel |-> TRUE, text |-> EmptyText],
                     [cancel |-> FALSE, text |-> << <<"a">> >>]} :
        /\ chatFile' = IF input.cancel THEN chatFile ELSE Cat(chatFile, input.text)
        /\ ending' = IF input.cancel THEN "cancelled" ELSE "completed"
    /\ rpc' = "loop"
    /\ UNCHANGED <<variant, aiSystem, withCompression, iteration,
                   turnMessages, turn, turnStartFile, modelMessages,
                   responseMessages, asked, writes>>
    /\ UNCHANGED <<codecVars, turnVars, patchVars, toolVars, ignoreVars, cacheVars, parserVars, execVars>>

\* the editor process closes with exit code 0 or another one, the user
\* having added something to the file or not
EditorCloses ==
    /\ rpc \in {"userEditor", "aiEditor"}
    /\ \E edit \in Edits, ok \in BOOLEAN :
        /\ chatFile' = Cat(chatFile, edit)
        /\ rpc' = IF ok THEN "loop" ELSE "rejected"
        /\ ending' = IF ok THEN "completed" ELSE "failed"
    /\ UNCHANGED <<variant, aiSystem, withCompression, iteration,
                   turnMessages, turn, turnStartFile, modelMessages,
                   responseMessages, asked, writes>>
    /\ UNCHANGED <<codecVars, turnVars, patchVars, toolVars, ignoreVars, cacheVars, parserVars, execVars>>

\* streamText is called with requestOptions
CallModel ==
    /\ rpc' = "stream"
    /\ modelMessages' = Append(modelMessages, requestMessages(turnMessages, aiSystem))
    /\ UNCHANGED ending

\* src/chat.ts: confirm("Call the LLM?") is answered
ConfirmCall ==
    /\ rpc = "aiAsk"
    /\ variant = "confirm"
    /\ \E check \in {"true", "false", "cancel"} :
        /\ asked' = check
        /\ IF check = "true" THEN CallModel
           ELSE /\ rpc' = "returned"
                /\ ending' = "declined"
                /\ UNCHANGED modelMessages
    /\ UNCHANGED <<chatFile, variant, aiSystem, withCompression, iteration,
                   turnMessages, turn, turnStartFile, responseMessages, writes>>
    /\ UNCHANGED <<codecVars, turnVars, patchVars, toolVars, ignoreVars, cacheVars, parserVars, execVars>>

\* src/prompts.ts: the select of performAITurn is answered
SelectAction ==
    /\ rpc = "aiAsk"
    /\ variant = "select"
    /\ \E action \in {"call-llm", "open-editor", "stop", "cancel"} :
        /\ asked' = action
        /\ IF action = "call-llm" THEN CallModel
           ELSE IF action = "open-editor"
           THEN /\ rpc' = "aiEditor"
                /\ UNCHANGED <<ending, modelMessages>>
           ELSE /\ rpc' = "returned"
                /\ ending' = "declined"
                /\ UNCHANGED modelMessages
    /\ UNCHANGED <<chatFile, variant, aiSystem, withCompression, iteration,
                   turnMessages, turn, turnStartFile, responseMessages, writes>>
    /\ UNCHANGED <<codecVars, turnVars, patchVars, toolVars, ignoreVars, cacheVars, parserVars, execVars>>

\* await response: the stream ends with the response messages, or fails
ModelResponds ==
    /\ rpc = "stream"
    /\ \/ /\ rpc' = "rejected"
          /\ ending' = "failed"
          /\ UNCHANGED responseMessages
       \/ \E r \in Responses :
          /\ responseMessages' = r
          /\ rpc' = "write"
          /\ UNCHANGED ending
    /\ UNCHANGED <<chatFile, variant, aiSystem, withCompression, iteration,
                   turnMessages, turn, turnStartFile, modelMessages, asked, writes>>
    /\ UNCHANGED <<codecVars, turnVars, patchVars, toolVars, ignoreVars, cacheVars, parserVars, execVars>>

\* await writeChatFile([...messages, ...responseMessages]); return true
WriteChatFile ==
    /\ rpc = "write"
    /\ LET w == writeChatFile(chatFile, turnMessages \o responseMessages,
                              withCompression)
       IN /\ chatFile' = w.file
          /\ writes' = IF w.threw THEN writes ELSE writes + 1
          /\ rpc' = IF w.threw THEN "rejected" ELSE "loop"
          /\ ending' = IF w.threw THEN "failed" ELSE "completed"
    /\ UNCHANGED <<variant, aiSystem, withCompression, iteration,
                   turnMessages, turn, turnStartFile, modelMessages,
                   responseMessages, asked>>
    /\ UNCHANGED <<codecVars, turnVars, patchVars, toolVars, ignoreVars, cacheVars, parserVars, execVars>>

RunNext ==
    \/ BeginIteration
    \/ UserSelect
    \/ UserText
    \/ EditorCloses
    \/ ConfirmCall
    \/ SelectAction
    \/ ModelResponds
    \/ WriteChatFile

SpecRun == RunInit /\ [][RunNext]_vars

-----------------------------------------------------------------------------
(* Properties of the chat loop (SpecRun)                                   *)

InUserTurn == rpc \in {"userSelect", "userText", "userEditor"}
InAITurn == rpc \in {"aiAsk", "aiEditor", "stream", "write"}

\* the file the iteration read parsed, and the run holds what it parsed
HoldsFreshParse ==
    /\ markdownToMessages(turnStartFile).ok
    /\ turnMessages = markdownToMessages(turnStartFile).msgs
    /\ turn = determineNextTurn(turnMessages)

\* C11: every iteration reads and parses the file again and performs one
\* turn, by the actor determineNextTurn names for the messages just parsed;
\* a user turn and an assistant turn never run together, and no turn uses
\* messages of an earlier iteration
C11_FreshParseOneTurn ==
    /\ [](/\ (InUserTurn \/ InAITurn) => HoldsFreshParse
          /\ InUserTurn => turn.role = "user"
          /\ InAITurn => turn.role = "assistant"
          /\ \A k \in 1..Len(modelMessages) :
                \E pre \in {<<>>, <<Msg("system", Str(aiSystem))>>} :
                    modelMessages[k] = pre \o markdownToMessages(turnStartFile).msgs)
    /\ [][/\ (rpc = "loop" /\ rpc' # "loop")
                => (iteration' = iteration + 1 /\ turnStartFile' = chatFile)
          /\ (rpc # "loop") => (iteration' = iteration /\ turnStartFile' = turnStartFile
                                /\ turnMessages' = turnMessages /\ turn' = turn)
          /\ InUserTurn => ~InAITurn'
          /\ InAITurn => ~InUserTurn']_vars

\* the second iteration, in an assistant turn on a file the first changed
C11_Witness ==
    /\ iteration = 2
    /\ rpc = "stream"
    /\ turnMessages # <<>>
    /\ ending = "none"

\* the turn was given up: Stop or cancel at the select of a user turn,
\* cancel at its text prompt, or no consent to the model call
Abandoned == ending \in {"stopped", "cancelled", "declined"}

\* C12: a turn given up by the user (Stop or cancel at the user-turn
\* prompt, no confirmation of the model call) leaves the file exactly as
\* it was when the turn began
C12_AbandonedTurnLeavesFile ==
    Abandoned => chatFile = turnStartFile

\* C12 as amended: the file is as it was when the turn began, but for the
\* "## user" heading a user turn with addHeading appends before it asks
C12_AbandonedTurnLeavesFileButHeading ==
    Abandoned =>
        chatFile = IF turn.role = "user" /\ turn.addHeading
                   THEN Cat(turnStartFile, UserHeading)
                   ELSE turnStartFile

\* Stop chosen in a user turn that had appended the heading
C12_Witness ==
    /\ ending = "stopped"
    /\ rpc = "returned"
    /\ turn = UserTurn(TRUE)
    /\ chatFile = Cat(turnStartFile, UserHeading)

\* C13: in an assistant turn the run writes the file at most once, as a
\* whole, after the response has arrived and the messages have serialized;
\* when the model call or the serialization fails the run ends and the
\* file is what it was
C13_OneCompleteWriteOrNone ==
    /\ [](writes <= 1)
    /\ [][/\ (rpc \in {"aiAsk", "stream", "write"} /\ chatFile' # chatFile)
                => /\ rpc = "write"
                   /\ writes = 0
                   /\ writes' = 1
                   /\ messagesToMarkdown(turnMessages \o responseMessages,
                                         withCompression).ok
                   /\ chatFile' = messagesToMarkdown(turnMessages \o responseMessages,
                                                     withCompression).md
          /\ (rpc = "write"
              /\ ~messagesToMarkdown(turnMessages \o responseMessages,
                                     withCompression).ok)
                => (rpc' = "rejected" /\ chatFile' = turnStartFile /\ writes' = 0)
          /\ (rpc = "stream" /\ rpc' # "write")
                => (rpc' = "rejected" /\ chatFile' = turnStartFile /\ writes' = 0)
          /\ (writes' # writes /\ rpc # "loop") => rpc = "write"]_vars

\* the serializer refused the response: the run has ended, the file is as read
C13_Witness ==
    /\ rpc = "rejected"
    /\ turn.role = "assistant"
    /\ responseMessages # <<>>
    /\ writes = 0
    /\ chatFile = turnStartFile

\* the system message of the configuration, if there is one
ConfiguredSystem ==
    IF aiSystem # EmptyText THEN <<Msg("system", Str(aiSystem))>> ELSE <<>>

\* C14: the model only ever gets the messages of a successful parse of the
\* file read in the same iteration (after the configured system message,
\* if any); a failed parse ends the run with no model call and the file
\* untouched
C14_ModelGetsFreshParseOnly ==
    /\ \A k \in 1..Len(modelMessages) :
          /\ markdownToMessages(turnStartFile).ok
          /\ modelMessages[k]
               = ConfiguredSystem \o markdownToMessages(turnStartFile).msgs
    /\ (rpc \in {"stream", "write"}) => Len(modelMessages) = 1
    /\ (iteration > 0 /\ ~markdownToMessages(turnStartFile).ok)
          => /\ rpc = "rejected"
             /\ modelMessages = <<>>
             /\ chatFile = turnStartFile

\* a later iteration calls the model with the system message and the
\* messages of the file as the user left it
C14_Witness ==
    /\ iteration > 1
    /\ rpc = "stream"
    /\ aiSystem # EmptyText
    /\ Len(modelMessages) = 1
    /\ Len(modelMessages[1]) > 1

Affirmative == {"true", "call-llm"}

LastIsTool(ms) == ms # <<>> /\ Last(ms).role = "tool"

\* C15: determineNextTurn alone decides: the model is called without asking
\* exactly when the last parsed message is a tool message; in any other
\* assistant turn the user is asked and the model is called only on a yes;
\* the turn has no other branch
C15_NoFurtherBranch ==
    /\ turn.role = "assistant"
          => /\ turn.skipConfirm <=> LastIsTool(turnMessages)
             /\ turn.skipConfirm => asked = "none"
    /\ modelMessages # <<>>
          => /\ turn.role = "assistant"
             /\ turn.skipConfirm \/ asked \in Affirmative
    /\ (turn.role = "assistant" /\ asked \notin Affirmative \cup {"none"})
          => (rpc = "returned" /\ modelMessages = <<>>)

\* C15 as amended: as above, but the select of src/prompts.ts also offers
\* the editor, which calls no model and ends the turn when it closes
C15_NoFurtherBranchButEditor ==
    /\ turn.role = "assistant"
          => /\ turn.skipConfirm <=> LastIsTool(turnMessages)
             /\ turn.skipConfirm => asked = "none"
    /\ modelMessages # <<>>
          => /\ turn.role = "assistant"
             /\ turn.skipConfirm \/ asked \in Affirmative
    /\ (turn.role = "assistant" /\ asked \notin Affirmative \cup {"none"})
          => /\ modelMessages = <<>>
             /\ \/ rpc = "returned"
                \/ /\ variant = "select"
                   /\ asked = "open-editor"
                   /\ rpc \in {"aiEditor", "loop", "rejected"}

\* a tool message was last: the model is called and nobody was asked
C15_Witness ==
    /\ rpc = "stream"
    /\ LastIsTool(turnMessages)
    /\ asked = "none"
    /\ modelMessages # <<>>

\* an assistant turn has written the file and returned
AssistantTurnCompleted ==
    /\ rpc = "loop"
    /\ turn.role = "assistant"
    /\ ending = "completed"
    /\ writes = 1

\* C16: parsing the file after a completed assistant turn gives the
\* messages parsed when the turn began, unchanged and in order, and then
\* the response messages of the model
C16_AppendOnly ==
    AssistantTurnCompleted =>
        /\ markdownToMessages(chatFile).ok
        /\ markdownToMessages(chatFile).msgs = turnMessages \o responseMessages

\* the written file is the serialization of exactly these messages: the
\* above fails only where serializing and parsing does not give the list back
C16_FileIsSerializationOfAll ==
    AssistantTurnCompleted =>
        LET md == messagesToMarkdown(turnMessages \o responseMessages,
                                     withCompression)
        IN md.ok /\ chatFile = md.md

-----------------------------------------------------------------------------
(* Ignore compiler, line by line.                                          *)

\* what the trimmed line says: negated, anchored, directory rule, and the
\* text between the marks
LineNegated(t) == t # <<>> /\ Head(t) = "!"

LineRest(t) == IF LineNegated(t) THEN Tail(t) ELSE t

LineAnchored(t) == LineRest(t) # <<>> /\ Head(LineRest(t)) = "/"

LineIsDirRule(t) ==
    endsWith(t, "/") \/ (~includes(t, "*") /\ ~includes(t, "."))

LineStem(t) ==
    LET r == IF LineAnchored(t) THEN Tail(LineRest(t)) ELSE LineRest(t)
    IN IF endsWith(r, "/") THEN Front(r) ELSE r

ProducesNothing(t) == t = <<>> \/ Head(t) = "#"

HasPrefix(p, q) == Len(p) >= Len(q) /\ SubSeq(p, 1, Len(q)) = q

\* the pattern without the "!" put on it
Unnegated(t, p) == IF LineNegated(t) THEN Tail(p) ELSE p

\* ps[k] (and ps[k + 1] for a directory rule) are the patterns of line t
PatternsOfLine(t, ps, k) ==
    LET n == IF LineIsDirRule(t) THEN 2 ELSE 1 IN
    /\ k + n - 1 <= Len(ps)
    /\ \A j \in k..(k + n - 1) :
          /\ ps[j] # <<>>
          /\ LineNegated(t) <=> Head(ps[j]) = "!"
          /\ ~LineAnchored(t) <=> HasPrefix(Unnegated(t, ps[j]), <<"*", "*", "/">>)
    /\ Unnegated(t, ps[k]) =
          (IF LineAnchored(t) THEN <<>> ELSE <<"*", "*", "/">>) \o LineStem(t)
    /\ n = 2 => ps[k + 1] = ps[k] \o <<"/", "*", "*">>

RECURSIVE InLineOrder(_, _, _, _)
InLineOrder(lines, i, ps, k) ==
    IF i > Len(lines) THEN k = Len(ps) + 1
    ELSE LET t == TrimLine(lines[i]) IN
         IF ProducesNothing(t) THEN InLineOrder(lines, i + 1, ps, k)
         ELSE /\ PatternsOfLine(t, ps, k)
              /\ InLineOrder(lines, i + 1, ps,
                             k + (IF LineIsDirRule(t) THEN 2 ELSE 1))

-----------------------------------------------------------------------------
(* Ignore cache: getIgnorePatterns, src/tools/_shared.ts lines 73-88.  The *)
(* module keeps one cachedIgnore and one cachedMtime for all its callers;  *)
(* a call stats the root's .gitignore, returns the cached patterns when    *)
(* the times agree, and otherwise reads and compiles the file.  The stat   *)
(* and the read are awaited, so the file system may change in between.     *)

MaxClock == 2

Roots == {"A", "B"}

IgnoreContents == { << <<"build">> >>, << <<"*", ".", "log">> >> }

\* patterns.push(".git/**")
GitDir == <<".", "git", "/", "*", "*">>

\* statRes.ok ? statRes.data.mtimeMs : -1
MissingMtime == -1

NoIgnoreFile == [exists |-> FALSE, content |-> EmptyText, mtime |-> 0]

CacheInit ==
    /\ ignoreFiles = [r \in Roots |-> NoIgnoreFile]
    /\ clock = 1
    /\ cachedIgnore = [set |-> FALSE]
    /\ cachedMtime = [set |-> FALSE]
    /\ lookup = [stage |-> "idle"]
    /\ CodecIdle /\ TurnIdle /\ PatchIdle /\ ToolIdle /\ IgnoreIdle /\ RunIdle /\ ParserIdle /\ ExecIdle

\* time passes
Tick ==
    /\ clock >= 1
    /\ clock < MaxClock
    /\ clock' = clock + 1
    /\ UNCHANGED <<ignoreFiles, cachedIgnore, cachedMtime, lookup>>
    /\ UNCHANGED <<codecVars, turnVars, patchVars, toolVars, ignoreVars, runVars, parserVars, execVars>>

\* somebody creates or rewrites the .gitignore of root r; the file's time
\* becomes the current time, which is later than the time it had
WriteIgnoreFile(r, c) ==
    /\ clock >= 1
    /\ ignoreFiles[r].mtime < clock
    /\ ~ignoreFiles[r].exists \/ ignoreFiles[r].content # c
    /\ ignoreFiles' = [ignoreFiles EXCEPT
            ![r] = [exists |-> TRUE, content |-> c, mtime |-> clock]]
    /\ UNCHANGED <<clock, cachedIgnore, cachedMtime, lookup>>
    /\ UNCHANGED <<codecVars, turnVars, patchVars, toolVars, ignoreVars, runVars, parserVars, execVars>>

\* somebody removes the .gitignore of root r
RemoveIgnoreFile(r) ==
    /\ clock >= 1
    /\ ignoreFiles[r].exists
    /\ ignoreFiles' = [ignoreFiles EXCEPT
            ![r] = [exists |-> FALSE, content |-> EmptyText,
                    mtime |-> ignoreFiles[r].mtime]]
    /\ UNCHANGED <<clock, cachedIgnore, cachedMtime, lookup>>
    /\ UNCHANGED <<codecVars, turnVars, patchVars, toolVars, ignoreVars, runVars, parserVars, execVars>>

\* cachedIgnore && cachedMtime === mtime
cacheHit(mtime) ==
    cachedIgnore.set /\ cachedMtime.set /\ cachedMtime.ms = mtime

\* getIgnorePatterns(r) up to the cache test: stat, then return the cached
\* patterns or go on to read
StatIgnoreFile(r) ==
    /\ clock >= 1
    /\ lookup.stage \in {"idle", "returned"}
    /\ LET mtime == IF ignoreFiles[r].exists THEN ignoreFiles[r].mtime
                    ELSE MissingMtime
       IN lookup' = IF cacheHit(mtime)
                    THEN [stage |-> "returned", root |-> r, mtime |-> mtime,
                          hit |-> TRUE, result |-> cachedIgnore.patterns]
                    ELSE [stage |-> "statted", root |-> r, mtime |-> mtime]
    /\ UNCHANGED <<ignoreFiles, clock, cachedIgnore, cachedMtime>>
    /\ UNCHANGED <<codecVars, turnVars, patchVars, toolVars, ignoreVars, runVars, parserVars, execVars>>

\* readRes.ok ? parseGitignore(readRes.data) : [], then ".git/**"
compiledIgnore(file) ==
    (IF file.exists THEN parseGitignore(file.content) ELSE <<>>) \o <<GitDir>>

\* the rest of getIgnorePatterns: read, compile, fill the cache, return
ReadIgnoreFile ==
    /\ lookup.stage = "statted"
    /\ LET patterns == compiledIgnore(ignoreFiles[lookup.root]) IN
       /\ cachedIgnore' = [set |-> TRUE, patterns |-> patterns]
       /\ cachedMtime' = [set |-> TRUE, ms |-> lookup.mtime]
       /\ lookup' = [stage |-> "returned", root |-> lookup.root,
                     mtime |-> lookup.mtime, hit |-> FALSE,
                     result |-> patterns]
    /\ UNCHANGED <<ignoreFiles, clock>>
    /\ UNCHANGED <<codecVars, turnVars, patchVars, toolVars, ignoreVars, runVars, parserVars, execVars>>

CacheNext ==
    \/ Tick
    \/ \E r \in Roots, c \in IgnoreContents : WriteIgnoreFile(r, c)
    \/ \E r \in Roots : RemoveIgnoreFile(r)
    \/ \E r \in Roots : StatIgnoreFile(r)
    \/ ReadIgnoreFile

SpecCache == CacheInit /\ [][CacheNext]_vars

\* a lookup returns in this step
Returns == lookup'.stage = "returned" /\ lookup' # lookup

\* C22: a lookup for a project root returns the patterns compiled from the
\* current content of that root's .gitignore, plus the .git entry
C22_LookupReturnsCurrent ==
    [][Returns => lookup'.result = compiledIgnore(ignoreFiles[lookup'.root])]_vars

\* the cached value is returned only when the file's time is the cached time
C22_ReusedOnlyAtCachedTime ==
    [][(Returns /\ lookup'.hit) =>
          /\ cachedMtime.set /\ cachedMtime.ms = lookup'.mtime
          /\ lookup'.result = cachedIgnore.patterns]_vars

-----------------------------------------------------------------------------
(* Patch parser: parsePatchString, src/unnamed/part_017 lines 242-345      *)
(* (with move patches and the final count of declarations) and             *)
(* src/unnamed/part_018 lines 152-214 (without both).  A line of the       *)
(* patch text is a sequence of tokens: the four declaration marks, the     *)
(* section openers, "===", ">>>", the blank, and words.                    *)

DeclAdd == "*** Add File:"
DeclDelete == "*** Delete File:"
DeclMove == "*** Move File:"
DeclUpdate == "*** Update File:"

\* line.startsWith(mark)
lineStartsWith(line, mark) == line # <<>> /\ Head(line) = mark

\* lines.join("\n"); no lines join to the empty string
joinLines(ls) == IF ls = <<>> THEN EmptyText ELSE ls

\* while (i < lines.length && lines[i]?.trim() !== stop) i++
RECURSIVE scanTo(_, _, _)
scanTo(lines, i, stop) ==
    IF i > Len(lines) THEN i
    ELSE IF TrimLine(lines[i]) = <<stop>> THEN i
    ELSE scanTo(lines, i + 1, stop)

\* lines[i + 1]?.trim() === opener
opensWith(lines, i, opener) ==
    i + 1 <= Len(lines) /\ TrimLine(lines[i + 1]) = <<opener>>

\* the for loop; i is the (1-based) index of the line looked at
RECURSIVE parsePatchFrom(_, _, _)
parsePatchFrom(lines, i, withMove) ==
    IF i > Len(lines) THEN <<>>
    ELSE
    LET line == TrimLine(lines[i])
        path == TrimLine(Tail(line))
    IN
    IF lineStartsWith(line, DeclAdd) THEN
        IF ~opensWith(lines, i, "<<< ADD")
        THEN parsePatchFrom(lines, i + 2, withMove)
        ELSE LET j == scanTo(lines, i + 2, ">>>") IN
             <<[type |-> "add", path |-> path,
                content |-> joinLines(SubSeq(lines, i + 2, j - 1))]>>
                \o parsePatchFrom(lines, j + 1, withMove)
    ELSE IF lineStartsWith(line, DeclDelete) THEN
        <<[type |-> "delete", path |-> path]>>
            \o parsePatchFrom(lines, i + 1, withMove)
    ELSE IF withMove /\ lineStartsWith(line, DeclMove) THEN
        IF ~opensWith(lines, i, "<<< TO")
        THEN parsePatchFrom(lines, i + 2, withMove)
        ELSE LET j == scanTo(lines, i + 2, ">>>") IN
             <<[type |-> "move", path |-> path,
                to |-> joinLines(SubSeq(lines, i + 2, j - 1))]>>
                \o parsePatchFrom(lines, j + 1, withMove)
    ELSE IF lineStartsWith(line, DeclUpdate) THEN
        IF ~opensWith(lines, i, "<<< SEARCH")
        THEN parsePatchFrom(lines, i + 2, withMove)
        ELSE LET j == scanTo(lines, i + 2, "===")
                 k == scanTo(lines, j + 1, ">>>")
             IN <<[type |-> "update", path |-> path,
                   search |-> joinLines(SubSeq(lines, i + 2, j - 1)),
                   replace |-> joinLines(SubSeq(lines, j + 1, k - 1))]>>
                   \o parsePatchFrom(lines, k + 1, withMove)
    ELSE parsePatchFrom(lines, i + 1, withMove)

\* patchString.split("\n").filter((line) => line.startsWith(mark)).length
declarationCount(lines, mark) ==
    Cardinality({i \in 1..Len(lines) : lineStartsWith(lines[i], mark)})

parsePatchString(text, counted) ==
    LET ps == parsePatchFrom(text, 1, counted)
        declared == declarationCount(text, DeclAdd)
                    + declarationCount(text, DeclUpdate)
                    + declarationCount(text, DeclDelete)
                    + declarationCount(text, DeclMove)
    IN IF counted /\ declared # Len(ps)
       THEN [threw |-> TRUE, patches |-> <<>>]
       ELSE [threw |-> FALSE, patches |-> ps]

-----------------------------------------------------------------------------
(* Patch parser specification: a patch text put together from up to        *)
(* MaxBlocks blocks, complete or incomplete, and stray lines, is parsed.   *)

MaxBlocks == 3

DeclLine(mark, word) == <<mark, " ", word>>

Block(kind, lines, patch) == [kind |-> kind, lines |-> lines, patch |-> patch]

CompleteBlocks ==
    { Block("complete",
            <<DeclLine(DeclAdd, "f"), <<"<<< ADD">>, <<"a">>, <<">>>">> >>,
            [type |-> "add", path |-> <<"f">>, content |-> << <<"a">> >>]),
      Block("complete", <<DeclLine(DeclDelete, "g")>>,
            [type |-> "delete", path |-> <<"g">>]),
      Block("complete",
            <<DeclLine(DeclUpdate, "f"), <<"<<< SEARCH">>, <<"a">>, <<"===">>,
              <<"b">>, <<">>>">> >>,
            [type |-> "update", path |-> <<"f">>, search |-> << <<"a">> >>,
             replace |-> << <<"b">> >>]),
      Block("complete",
            <<DeclLine(DeclMove, "f"), <<"<<< TO">>, <<"g">>, <<">>>">> >>,
            [type |-> "move", path |-> <<"f">>, to |-> << <<"g">> >>]) }

NoPatch == [type |-> "none"]

\* a declaration whose opener is missing, and blocks whose ">>>" is missing
IncompleteBlocks ==
    { Block("incomplete", <<DeclLine(DeclAdd, "f")>>, NoPatch),
      Block("incomplete", <<DeclLine(DeclUpdate, "f")>>, NoPatch),
      Block("incomplete",
            <<DeclLine(DeclAdd, "f"), <<"<<< ADD">>, <<"a">> >>, NoPatch),
      Block("incomplete",
            <<DeclLine(DeclUpdate, "f"), <<"<<< SEARCH">>, <<"a">>, <<"===">>,
              <<"b">> >>, NoPatch) }

StrayBlocks == { Block("stray", << <<"a">> >>, NoPatch),
                 Block("stray", << <<>> >>, NoPatch) }

PatchBlocks == CompleteBlocks \cup IncompleteBlocks \cup StrayBlocks

RECURSIVE BlockLines(_)
BlockLines(bs) ==
    IF bs = <<>> THEN <<>> ELSE Head(bs).lines \o BlockLines(Tail(bs))

ParserInit ==
    /\ patchBlocks \in SeqsOf(PatchBlocks, 1, MaxBlocks)
    /\ patchString = BlockLines(patchBlocks)
    /\ countsDeclarations \in BOOLEAN
    /\ parsedPatches = [threw |-> FALSE, patches |-> <<>>]
    /\ ppc = "start"
    /\ CodecIdle /\ TurnIdle /\ PatchIdle /\ ToolIdle /\ IgnoreIdle /\ RunIdle /\ ExecIdle
    /\ CacheIdle

\* let patches = parsePatchString(patchString)
ParsePatchString ==
    /\ ppc = "start"
    /\ parsedPatches' = parsePatchString(patchString, countsDeclarations)
    /\ ppc' = "done"
    /\ UNCHANGED <<patchBlocks, patchString, countsDeclarations>>
    /\ UNCHANGED <<codecVars, turnVars, patchVars, toolVars, ignoreVars, runVars, cacheVars, execVars>>

ParserNext == ParsePatchString

SpecParser == ParserInit /\ [][ParserNext]_vars

\* a block this version of the parser knows
IsBlock(b) ==
    b.kind = "complete" /\ (b.patch.type = "move" => countsDeclarations)

\* the patches of the complete blocks, in input order
RECURSIVE PatchesOfBlocks(_)
PatchesOfBlocks(bs) ==
    IF bs = <<>> THEN <<>>
    ELSE (IF IsBlock(Head(bs)) THEN <<Head(bs).patch>> ELSE <<>>)
            \o PatchesOfBlocks(Tail(bs))

NoIncompleteBlock ==
    \A i \in 1..Len(patchBlocks) : patchBlocks[i].kind # "incomplete"

\* ps occurs in qs, in order
RECURSIVE IsSubsequence(_, _)
IsSubsequence(ps, qs) ==
    IF ps = <<>> THEN TRUE
    ELSE IF qs = <<>> THEN FALSE
    ELSE IF Head(ps) = Head(qs) THEN IsSubsequence(Tail(ps), Tail(qs))
    ELSE IsSubsequence(ps, Tail(qs))

\* C23: one patch for every well-formed block, in input order; lines of no
\* block are skipped; an incomplete block neither changes nor drops nor
\* merges the patches of the complete blocks after it (what it gives
\* itself is left open)
C23_CompleteBlocksParsed ==
    ppc = "done" =>
        /\ ~parsedPatches.threw
        /\ IsSubsequence(PatchesOfBlocks(patchBlocks), parsedPatches.patches)
        /\ NoIncompleteBlock =>
              parsedPatches.patches = PatchesOfBlocks(patchBlocks)

\* the same for patch texts without an incomplete block: exactly the
\* patches of the blocks
C23_CompleteBlocksParsedAlone ==
    (ppc = "done" /\ NoIncompleteBlock) =>
        /\ ~parsedPatches.threw
        /\ parsedPatches.patches = PatchesOfBlocks(patchBlocks)

\* the version without the declaration count never drops a complete block
C23_UncountedKeepsBlocks ==
    (ppc = "done" /\ ~countsDeclarations) =>
        IsSubsequence(PatchesOfBlocks(patchBlocks), parsedPatches.patches)

\* the version with the declaration count never throws
C23_CountedNeverThrows ==
    (ppc = "done" /\ countsDeclarations) => ~parsedPatches.threw

-----------------------------------------------------------------------------
(* Update-patch engine, empty search text.                                 *)

HasBlankLine(content) ==
    \E i \in 1..Len(content) : TrimLine(content[i]) = <<>>

\* C24: applyPatchToString throws whenever the search string is empty, for
\* every file content
C24_EmptySearchThrows ==
    (updated # NotRun /\ update.search = EmptyText) => ~updated.ok

\* it throws for the empty search string when no line of the content is
\* empty or blank
C24_EmptySearchThrowsWithoutBlankLine ==
    (updated # NotRun /\ update.search = EmptyText /\ ~HasBlankLine(fileText))
        => ~updated.ok

\* the message of the throw is never the one of the empty-search test
C24_EmptyTestNeverFires ==
    updated # NotRun => updated.error # "search lines is empty"

-----------------------------------------------------------------------------
(* exec-command tool: createExecCommandTool.execute, src/unnamed/part_022  *)
(* lines 30-71.  A session makes up to MaxCalls calls one after another.   *)
(* The tool waits at the select prompt and, after Deny, at the text prompt *)
(* for the reason.  A command and an argument are strings of tokens.       *)

MaxCalls == 3

Commands == { <<"ls">>, <<"rm">> }

\* no argument, "x", "x" and "y", and the one argument "x y"
ArgumentLists ==
    { <<>>, << <<"x">> >>, << <<"x">>, <<"y">> >>, << <<"x", " ", "y">> >> }

\* args.join(" ")
RECURSIVE joinArgs(_)
joinArgs(args) ==
    IF args = <<>> THEN <<>>
    ELSE IF Len(args) = 1 THEN Head(args)
    ELSE Head(args) \o <<" ">> \o joinArgs(Tail(args))

\* `${command} ${args.join(" ")}`
executable(call) == call.command \o <<" ">> \o joinArgs(call.arguments)

\* options.alwaysAllow.includes(executable)
alwaysAllowed(line) == \E i \in 1..Len(alwaysAllow) : alwaysAllow[i] = line

ExecInit ==
    /\ alwaysAllow = <<>>
    /\ execCall = [command |-> <<>>, arguments |-> <<>>]
    /\ epc = "ready"
    /\ execResult = "none"
    /\ execLog = <<>>
    /\ alwaysAnswered = {}
    /\ CodecIdle /\ TurnIdle /\ PatchIdle /\ ToolIdle /\ IgnoreIdle /\ RunIdle
    /\ CacheIdle /\ ParserIdle

\* runCommand(command, args, options.cwd, timeout), let pass by `via`
runCommand(call, via) ==
    /\ execLog' = Append(execLog, [call |-> call, via |-> via])
    /\ execResult' = "ran"
    /\ epc' = "ready"

\* the model calls the tool: the always-allow test, then run or prompt
Execute(command, args) ==
    /\ epc = "ready"
    /\ Len(execLog) < MaxCalls
    /\ execCall' = [command |-> command, arguments |-> args]
    /\ IF alwaysAllowed(executable(execCall'))
       THEN runCommand(execCall', "list")
       ELSE /\ epc' = "select"
            /\ UNCHANGED <<execResult, execLog>>
    /\ UNCHANGED <<alwaysAllow, alwaysAnswered>>
    /\ UNCHANGED <<codecVars, turnVars, patchVars, toolVars, ignoreVars, runVars, cacheVars, parserVars>>

\* the user answers the select prompt; "cancel" is the cancel symbol
AnswerSelect(userChoice) ==
    /\ epc = "select"
    /\ IF userChoice = "deny"
       THEN /\ epc' = "reason"
            /\ UNCHANGED <<alwaysAllow, alwaysAnswered, execResult, execLog>>
       ELSE /\ alwaysAllow' = IF userChoice = "always"
                              THEN Append(alwaysAllow, executable(execCall))
                              ELSE alwaysAllow
            /\ alwaysAnswered' = IF userChoice = "always"
                                 THEN alwaysAnswered \cup {execCall}
                                 ELSE alwaysAnswered
            /\ runCommand(execCall, userChoice)
    /\ UNCHANGED execCall
    /\ UNCHANGED <<codecVars, turnVars, patchVars, toolVars, ignoreVars, runVars, cacheVars, parserVars>>

\* the user gives a reason, none, or cancels the text prompt
AnswerReason(reason) ==
    /\ epc = "reason"
    /\ execResult' = IF reason = "cancel" THEN "threw" ELSE "user-denied"
    /\ epc' = "ready"
    /\ UNCHANGED <<alwaysAllow, execCall, execLog, alwaysAnswered>>
    /\ UNCHANGED <<codecVars, turnVars, patchVars, toolVars, ignoreVars, runVars, cacheVars, parserVars>>

ExecNext ==
    \/ \E command \in Commands, args \in ArgumentLists : Execute(command, args)
    \/ \E userChoice \in {"allow", "always", "deny", "cancel"} :
          AnswerSelect(userChoice)
    \/ \E reason \in {"text", "empty", "cancel"} : AnswerReason(reason)

SpecExec == ExecInit /\ [][ExecNext]_vars

\* C25: a command runs only if its command line is in the always-allow list
\* or the user answered Allow once or Always allow; not when the user
\* denies or cancels; Always allow suppresses the prompt only for later
\* calls with the identical command and arguments
C25_RunsOnlyWithConsent ==
    \A i \in 1..Len(execLog) :
        /\ execLog[i].via \in {"list", "allow", "always"}
        /\ execLog[i].via = "list" => execLog[i].call \in alwaysAnswered

\* no command runs on a cancelled select prompt
C25_CancelRunsNothing ==
    \A i \in 1..Len(execLog) : execLog[i].via # "cancel"

\* the prompt is suppressed only for calls answered with Always allow
C25_SuppressedOnlyForSameCall ==
    \A i \in 1..Len(execLog) :
        execLog[i].via = "list" => execLog[i].call \in alwaysAnswered

\* the prompt is suppressed only for command lines answered with Always allow
C25_SuppressedOnlyForSameLine ==
    \A i \in 1..Len(execLog) :
        execLog[i].via = "list" =>
            \E c \in alwaysAnswered : executable(c) = executable(execLog[i].call)

\* nothing runs while the user is asked, and nothing after Deny
C25_DenyRunsNothing ==
    [][(epc = "reason") => execLog' = execLog]_vars

-----------------------------------------------------------------------------
(* Session: the conversation file over several runs of the chat loop, with *)
(* another process (an editor, a second md-ai) writing to it while an      *)
(* assistant turn waits.  The iterations are counted across the runs.      *)

\* a response cut off inside a code block: "## user", "a", "## assistant",
\* an opening fence and a line of code
TruncatedChat ==
    messagesToMarkdown(<<Msg("user", Str(<< <<"a">> >>)),
                         Msg("assistant", Str(<< <<BT3>>, <<"a">> >>))>>,
                       FALSE).md

SessionChats == InitialChats \cup {TruncatedChat}

SessionInit ==
    /\ chatFile \in SessionChats
    /\ variant \in {"confirm", "select"}
    /\ aiSystem \in {EmptyText, << <<"s">> >>}
    /\ withCompression \in BOOLEAN
    /\ rpc = "loop"
    /\ iteration = 0
    /\ turnMessages = <<>>
    /\ turn = Undecided
    /\ turnStartFile = EmptyText
    /\ modelMessages = <<>>
    /\ responseMessages = <<>>
    /\ asked = "none"
    /\ writes = 0
    /\ ending = "none"
    /\ CodecIdle /\ TurnIdle /\ PatchIdle /\ ToolIdle /\ IgnoreIdle /\ CacheIdle
    /\ ParserIdle /\ ExecIdle

\* md-ai is started again on the file after run returned or rejected
Restart ==
    /\ rpc \in {"returned", "rejected"}
    /\ rpc' = "loop"
    /\ UNCHANGED <<chatFile, variant, aiSystem, withCompression, iteration,
                   turnMessages, turn, turnStartFile, modelMessages,
                   responseMessages, asked, writes, ending>>
    /\ UNCHANGED <<codecVars, turnVars, patchVars, toolVars, ignoreVars, cacheVars, parserVars, execVars>>

\* another process appends to the file, once, while the assistant turn
\* waits for the confirmation or for the model
OtherProcessWrites ==
    /\ rpc \in {"aiAsk", "stream"}
    /\ chatFile = turnStartFile
    /\ \E edit \in Edits \ {EmptyText} : chatFile' = Cat(chatFile, edit)
    /\ UNCHANGED <<variant, aiSystem, withCompression, rpc, iteration,
                   turnMessages, turn, turnStartFile, modelMessages,
                   responseMessages, asked, writes, ending>>
    /\ UNCHANGED <<codecVars, turnVars, patchVars, toolVars, ignoreVars, cacheVars, parserVars, execVars>>

SessionNext ==
    \/ BeginIteration
    \/ UserSelect
    \/ UserText
    \/ EditorCloses
    \/ ConfirmCall
    \/ SelectAction
    \/ ModelResponds
    \/ WriteChatFile
    \/ Restart
    \/ OtherProcessWrites

SpecSession == SessionInit /\ [][SessionNext]_vars

\* the assistant turn writes the file in this step
FinalWrite == rpc = "write" /\ writes' = writes + 1

\* C26: a change another process made to the file after the assistant turn
\* read it is not lost: the final write replaces only content the turn read
C26_WriteReplacesOnlyWhatWasRead ==
    [][FinalWrite => chatFile = turnStartFile]_vars

\* the final write leaves nothing of the file but the messages the turn
\* read and the response
C26_WriteKeepsOnlyOwnMessages ==
    [][FinalWrite =>
          chatFile' = messagesToMarkdown(turnMessages \o responseMessages,
                                         withCompression).md]_vars

-----------------------------------------------------------------------------
(* Batches with two patches for one file (SpecTool)                        *)

\* the lines of the content the search text matches
MatchedLines(content, search) ==
    { l \in 1..Len(content) :
        \E s \in Occurrences(content, search) : s <= l /\ l < s + Len(search) }

\* patches i and j are approved updates of one file, matching disjoint lines
\* of what the file held when the batch began, and both ended successful
DisjointUpdates(i, j) ==
    /\ patches[i].type = "update" /\ patches[j].type = "update"
    /\ ~Escapes(patches[i]) /\ ~Escapes(patches[j])
    /\ Location(patches[i].path) = Location(patches[j].path)
    /\ Approved(i) /\ Approved(j)
    /\ LET old == InitialFiles[Location(patches[i].path)].text IN
       /\ MatchedLines(old, patches[i].search) # {}
       /\ MatchedLines(old, patches[j].search) # {}
       /\ MatchedLines(old, patches[i].search)
            \cap MatchedLines(old, patches[j].search) = {}
    /\ tasks[i].result.ok /\ tasks[j].result.ok

\* the content with the replacements of both patches
BothReplaced(i, j) ==
    LET old == InitialFiles[Location(patches[i].path)].text
        one == ReplacedFrom(old, patches[i].search, patches[i].replace, 1)
    IN ReplacedFrom(one, patches[j].search, patches[j].replace, 1)

\* C27: two approved update patches of one batch for the same file, whose
\* search texts match disjoint lines and which are both reported
\* successful, leave the file with both replacements, however their reads
\* and writes interleave
C27_BothReplacementsKept ==
    \A i, j \in 1..Len(patches) :
        (i < j /\ outcome.kind = "returned" /\ DisjointUpdates(i, j)) =>
            files[Location(patches[i].path)].text = BothReplaced(i, j)

\* both replacements are there when the second patch read after the first
\* had written
C27_BothKeptWhenSerial ==
    \A i, j \in 1..Len(patches) :
        ( /\ i # j /\ outcome.kind = "returned" /\ DisjointUpdates(i, j)
          /\ tasks[j].buf = BothReplaced(i, j) ) =>
            files[Location(patches[i].path)].text = BothReplaced(i, j)

-----------------------------------------------------------------------------
(* Empty user sections at the end of the file (SpecSession)                *)

LastIsEmptyUser(ms) ==
    ms # <<>> /\ Last(ms).role = "user" /\ ContentLength(Last(ms).content) = 0

\* the lines of the text without the blank lines at its end
RECURSIVE WithoutTrailingBlanks(_)
WithoutTrailingBlanks(lines) ==
    IF lines = <<>> THEN <<>>
    ELSE IF IsBlankLine(Last(lines)) THEN WithoutTrailingBlanks(Front(lines))
    ELSE lines

IsUserHeadingLine(l) == TrimLine(l) = <<"##", " ", "user">>

\* the number of "## user" lines the text ends with, blank lines aside
RECURSIVE TrailingUserHeadings(_)
TrailingUserHeadings(lines) ==
    LET ls == WithoutTrailingBlanks(lines) IN
    IF ls = <<>> THEN 0
    ELSE IF IsUserHeadingLine(Last(ls))
    THEN 1 + TrailingUserHeadings(Front(ls))
    ELSE 0

\* performUserTurn has just appended the heading
HeadingAppended ==
    rpc = "userSelect" /\ chatFile = Cat(turnStartFile, UserHeading)

ParsedBackAsOneEmptyUser ==
    LET r == markdownToMessages(chatFile) IN
    /\ r.ok
    /\ r.msgs = turnMessages \o <<Msg("user", Str(EmptyText))>>

\* the file ends inside a code block that was never closed
RECURSIVE InsideFence(_, _, _)
InsideFence(lines, i, open) ==
    IF i > Len(lines) THEN open
    ELSE IF ~open /\ IsFenceOpen(lines[i]) THEN InsideFence(lines, i + 1, TRUE)
    ELSE IF open /\ IsFenceClose(lines[i]) THEN InsideFence(lines, i + 1, FALSE)
    ELSE InsideFence(lines, i + 1, open)

\* C28: the file never ends with more than one empty user section; the
\* "## user" heading is appended only when the freshly parsed last message
\* is not an empty user message; an appended heading is parsed back as
\* exactly one empty user message
C28_OneEmptyUserSection ==
    /\ TrailingUserHeadings(chatFile) <= 1
    /\ HeadingAppended => ~LastIsEmptyUser(turnMessages)
    /\ (rpc = "userSelect" /\ LastIsEmptyUser(turnMessages))
            => chatFile = turnStartFile
    /\ HeadingAppended => ParsedBackAsOneEmptyUser

\* the heading is appended only after a last message that is not an empty
\* user message
C28_AppendedOnlyAfterOtherMessage ==
    /\ HeadingAppended => ~LastIsEmptyUser(turnMessages)
    /\ (rpc = "userSelect" /\ LastIsEmptyUser(turnMessages))
            => chatFile = turnStartFile

\* the same as C28 for files that do not end inside an open code block
C28_OneEmptyUserSectionOutsideFence ==
    ~InsideFence(turnStartFile, 1, FALSE) =>
        /\ ~InsideFence(chatFile, 1, FALSE) => TrailingUserHeadings(chatFile) <= 1
        /\ HeadingAppended => ~LastIsEmptyUser(turnMessages)
        /\ HeadingAppended => ParsedBackAsOneEmptyUser


\* the file never ends with two "## user" lines
C28_AtMostOneTrailingHeading == TrailingUserHeadings(chatFile) <= 1

-----------------------------------------------------------------------------
(* The write tools with another process writing to the project: while the  *)
(* write-file tool waits at its prompt or for the auto-mode countdown,     *)
(* somebody else changes f.                                                *)

\* f as the other process leaves it
ForeignText == << <<"a">>, <<"b">>, <<"c">> >>

OtherProcessModifies ==
    /\ tool = "write-file"
    /\ tpc \in {"ask", "auto"}
    /\ files[PathF] = InitialFiles[PathF]
    /\ files' = [files EXCEPT ![PathF] = FileOf(ForeignText, @.mtime + 1)]
    /\ UNCHANGED <<tool, patches, auto, dirs, tracker, answer, tpc, tasks, outcome>>
    /\ UNCHANGED <<codecVars, turnVars, patchVars, ignoreVars, runVars, cacheVars, parserVars, execVars>>

SharedToolNext ==
    \/ AskWhichPatchesToAllow
    \/ ReturnResults
    \/ CheckFileVersion
    \/ MaybeAutoMode
    \/ AskWhichPatchToAllow
    \/ TrackAndReturn
    \/ \E i \in 1..Len(tasks) : ApplyAddPatchWrite(i)
    \/ \E i \in 1..Len(tasks) : ApplyDeletePatchUnlink(i)
    \/ \E i \in 1..Len(tasks) : ApplyMovePatchMkdir(i)
    \/ \E i \in 1..Len(tasks) : ApplyMovePatchRename(i)
    \/ \E i \in 1..Len(tasks) : ApplyUpdatePatchRead(i)
    \/ \E i \in 1..Len(tasks) : ApplyUpdatePatchWrite(i)
    \/ \E i \in 1..Len(tasks) : ApplyReplacePatchStat(i)
    \/ \E i \in 1..Len(tasks) : ApplyReplacePatchWrite(i)
    \/ OtherProcessModifies

SpecSharedTool == ToolInit /\ [][SharedToolNext]_vars

\* the write-file tool was called with an update or a replace patch for a
\* path inside the project
ModifiesFile ==
    /\ tool = "write-file"
    /\ patches[1].type \in {"update", "replace"}
    /\ ~Escapes(patches[1])

FileToModify == ensureProjectPath(cwd, patches[1].path).path

\* the tracker holds the version the file has on disk
SeenCurrent == ~checkFileVersion(tracker, files, FileToModify)

\* the patch writes the file in this step
WritesFile ==
    /\ tasks[1].pc \in {"update:writeFile", "replace:writeFile"}
    /\ tasks'[1].pc = "done"
    /\ files' # files

\* C29: an update or replace patch is written only to a file whose content
\* on disk the model has seen; a file never read, or modified since the
\* model last read or wrote it, also during the approval prompt, gives
\* file-outdated with no file system call; after a successful write the new
\* version is recorded, so that a following patch is accepted
C29_WrittenOnlyIfSeen ==
    /\ [](ModifiesFile =>
            /\ outcome.status = "file-outdated" => tasks[1].ops = <<>>
            /\ (outcome.kind = "returned" /\ outcome.ok) => SeenCurrent)
    /\ [][ModifiesFile =>
            /\ (tpc = "check" /\ tpc' # "check" /\ ~SeenCurrent)
                  => outcome'.status = "file-outdated"
            /\ WritesFile => SeenCurrent]_vars

\* a file never read or changed before the call is refused
C29_OutdatedAtCallRefused ==
    [][(ModifiesFile /\ tpc = "check" /\ tpc' # "check" /\ ~SeenCurrent)
            => (outcome'.status = "file-outdated" /\ tpc' = "done")]_vars

\* after a successful write the tracker holds the file's new version
C29_NewVersionRecorded ==
    (ModifiesFile /\ outcome.kind = "returned" /\ outcome.ok) => SeenCurrent

-----------------------------------------------------------------------------
(* Failed patches (SpecTool)                                               *)

\* patch i ended without success: failed, denied or rejected
EndedInFailure(i) ==
    tasks[i].pc \in {"done", "denied", "rejected"} /\ ~tasks[i].result.ok

\* patch i fails in this step
FailsNow(i) ==
    /\ tasks[i].pc \notin {"done", "denied", "rejected"}
    /\ tasks'[i].pc = "done"
    /\ ~tasks'[i].result.ok

\* C30: a patch whose result is a failure has changed nothing on disk: when
\* every patch of a call ended in failure, the files and directories are as
\* they were before the call
C30_FailedPatchesChangeNothing ==
    (\A i \in 1..Len(tasks) : EndedInFailure(i)) => DiskUnchanged

\* the step in which a patch fails changes neither files nor directories
C30_FailingStepChangesNothing ==
    [][(\E i \in 1..Len(tasks) : FailsNow(i)) => (files' = files /\ dirs' = dirs)]_vars

\* failed patches that are not moves leave the disk as it was
C30_FailedNonMovesChangeNothing ==
    ( /\ \A i \in 1..Len(tasks) : EndedInFailure(i)
      /\ \A i \in 1..Len(patches) : patches[i].type # "move" ) => DiskUnchanged

====
